---- MODULE Spec2Model ----
(***************************************************************************)
(* GitLFSflare: the Git LFS batch endpoint (src/src/app.ts) with its       *)
(* token extraction, organization admission, cached GitHub permission      *)
(* resolution, batch validation and per-object processing.                 *)
(*                                                                         *)
(* JavaScript strings are TLA+ strings; TLC evaluates Len, \o and SubSeq   *)
(* on them.  An optional value (T | null | undefined) is a sequence of     *)
(* length at most one: <<>> is the absent value, <<v>> the present one.    *)
(***************************************************************************)
EXTENDS Integers, Sequences, FiniteSets, TLC

(***************************************************************************)
(* String primitives of the JavaScript runtime                             *)
(***************************************************************************)
None == <<>>

Some(v) == <<v>>

CharAt(s, i) == SubSeq(s, i, i)

\* s.slice(n)
Slice(s, n) == SubSeq(s, n + 1, Len(s))

\* s.startsWith(p)
StartsWith(s, p) == Len(s) >= Len(p) /\ SubSeq(s, 1, Len(p)) = p

\* s.endsWith(p)
EndsWith(s, p) == Len(s) >= Len(p) /\ SubSeq(s, Len(s) - Len(p) + 1, Len(s)) = p

\* s.includes(p)
Includes(s, p) == \E i \in 1..(Len(s) - Len(p) + 1) : SubSeq(s, i, i + Len(p) - 1) = p

\* s.indexOf(c), 0-based, -1 when absent
IndexOf(s, c) ==
  IF Includes(s, c)
  THEN (CHOOSE i \in 1..Len(s) :
          /\ SubSeq(s, i, i + Len(c) - 1) = c
          /\ \A j \in 1..(i - 1) : SubSeq(s, j, j + Len(c) - 1) # c) - 1
  ELSE -1

\* every character of s occurs in the string alphabet
AllCharsIn(s, alphabet) == \A i \in 1..Len(s) : Includes(alphabet, CharAt(s, i))

Lower == "abcdefghijklmnopqrstuvwxyz"

Upper == "ABCDEFGHIJKLMNOPQRSTUVWXYZ"

Digits == "0123456789"

LowerChar(c) == IF Includes(Upper, c) THEN CharAt(Lower, IndexOf(Upper, c) + 1) ELSE c

RECURSIVE ToLowerCase(_)
ToLowerCase(s) ==
  IF s = "" THEN ""
  ELSE IF Len(s) = 1 THEN LowerChar(s)
  ELSE ToLowerCase(SubSeq(s, 1, Len(s) \div 2)) \o ToLowerCase(Slice(s, Len(s) \div 2))

\* the string of n copies of c
RECURSIVE Repeat(_, _)
Repeat(c, n) ==
  IF n = 0 THEN ""
  ELSE IF n % 2 = 1 THEN c \o Repeat(c, n - 1)
  ELSE Repeat(c, n \div 2) \o Repeat(c, n \div 2)

\* s.trim() for the space character
RECURSIVE TrimStart(_)
TrimStart(s) == IF StartsWith(s, " ") THEN TrimStart(Slice(s, 1)) ELSE s

RECURSIVE TrimEnd(_)
TrimEnd(s) == IF EndsWith(s, " ") THEN TrimEnd(SubSeq(s, 1, Len(s) - 1)) ELSE s

Trim(s) == TrimEnd(TrimStart(s))

\* s.split(",") as a sequence of strings
RECURSIVE SplitComma(_)
SplitComma(s) ==
  IF IndexOf(s, ",") = -1 THEN <<s>>
  ELSE <<SubSeq(s, 1, IndexOf(s, ","))>> \o SplitComma(Slice(s, IndexOf(s, ",") + 1))

(***************************************************************************)
(* atob: base64 decoding.  Decoded bytes outside printable ASCII are       *)
(* rendered as "?" (a character outside every character class tested      *)
(* below and different from ":"); so is the grave accent (byte 96), which  *)
(* a TLA+ string cannot hold.                                              *)
(***************************************************************************)
B64Alphabet == Upper \o Lower \o Digits \o "+/"

Printable ==
  " !\"#$%&'()*+,-./0123456789:;<=>?@ABCDEFGHIJKLMNOPQRSTUVWXYZ[\\]^_?abcdefghijklmnopqrstuvwxyz{|}~"

ByteChar(b) == IF b >= 32 /\ b <= 126 THEN CharAt(Printable, b - 31) ELSE "?"

\* strip up to two trailing "=" when the length is a multiple of 4
StripPadding(s) ==
  IF Len(s) % 4 = 0 /\ EndsWith(s, "==") THEN SubSeq(s, 1, Len(s) - 2)
  ELSE IF Len(s) % 4 = 0 /\ EndsWith(s, "=") THEN SubSeq(s, 1, Len(s) - 1)
  ELSE s

\* atob throws (InvalidCharacterError) on these inputs
AtobThrows(s) ==
  \/ Len(StripPadding(s)) % 4 = 1
  \/ ~AllCharsIn(StripPadding(s), B64Alphabet)

RECURSIVE B64Bits(_)
B64Bits(s) ==
  IF s = "" THEN <<>>
  ELSE LET v == IndexOf(B64Alphabet, CharAt(s, 1))
       IN  << (v \div 32) % 2, (v \div 16) % 2, (v \div 8) % 2,
              (v \div 4) % 2, (v \div 2) % 2, v % 2 >> \o B64Bits(Slice(s, 1))

RECURSIVE BitsToString(_)
BitsToString(bits) ==
  IF Len(bits) < 8 THEN ""
  ELSE ByteChar(bits[1] * 128 + bits[2] * 64 + bits[3] * 32 + bits[4] * 16
                + bits[5] * 8 + bits[6] * 4 + bits[7] * 2 + bits[8])
       \o BitsToString(SubSeq(bits, 9, Len(bits)))

Atob(s) == BitsToString(B64Bits(StripPadding(s)))

(***************************************************************************)
(* services/auth.ts                                                        *)
(***************************************************************************)
VALID_PREFIXES == <<"ghp_", "github_pat_", "ghs_">>

MAX_TOKEN_LENGTH == 1000

TOKEN_CHARS == Lower \o Upper \o Digits \o "_"

\* header: None (no Authorization header) or Some(string); result: None or
\* Some([type, token])
\* parseAuthHeader taking the part after the last colon of the decoded value
parseAuthHeader_LastColon(header) ==
  IF header = None \/ header = Some("") THEN None
  ELSE LET h == header[1]
           lowerHeader == ToLowerCase(h)
       IN  IF StartsWith(lowerHeader, "bearer ")
           THEN IF Slice(h, 7) = "" THEN None
                ELSE Some([type |-> "bearer", token |-> Slice(h, 7)])
           ELSE IF StartsWith(lowerHeader, "basic ")
           THEN LET encoded == Slice(h, 6)
                IN  IF encoded = "" THEN None
                    ELSE IF AtobThrows(encoded) THEN None
                    ELSE LET decoded == Atob(encoded)
                         IN  IF ~Includes(decoded, ":") THEN None
                             ELSE LET last == CHOOSE i \in 1..Len(decoded) :
                                                /\ CharAt(decoded, i) = ":"
                                                /\ \A j \in (i + 1)..Len(decoded) : CharAt(decoded, j) # ":"
                                  IN  Some([type |-> "basic", token |-> Slice(decoded, last)])
           ELSE None

parseAuthHeader(header) ==
  IF header = None \/ header = Some("") THEN None
  ELSE LET h == header[1]
           lowerHeader == ToLowerCase(h)
       IN  IF StartsWith(lowerHeader, "bearer ")
           THEN IF Slice(h, 7) = "" THEN None
                ELSE Some([type |-> "bearer", token |-> Slice(h, 7)])
           ELSE IF StartsWith(lowerHeader, "basic ")
           THEN LET encoded == Slice(h, 6)
                IN  IF encoded = "" THEN None
                    ELSE IF AtobThrows(encoded) THEN None
                    ELSE LET decoded == Atob(encoded)
                             colonIndex == IndexOf(decoded, ":")
                         IN  IF colonIndex = -1 THEN None
                             ELSE Some([type |-> "basic",
                                        token |-> Slice(decoded, colonIndex + 1)])
           ELSE None

validateTokenFormat(token) ==
  IF token = "" \/ Len(token) > MAX_TOKEN_LENGTH THEN FALSE
  ELSE IF ~\E i \in 1..Len(VALID_PREFIXES) : StartsWith(token, VALID_PREFIXES[i]) THEN FALSE
  ELSE LET k == CHOOSE i \in 1..Len(VALID_PREFIXES) :
                  /\ StartsWith(token, VALID_PREFIXES[i])
                  /\ \A j \in 1..(i - 1) : ~StartsWith(token, VALID_PREFIXES[j])
           suffix == Slice(token, Len(VALID_PREFIXES[k]))
       IN  IF suffix = "" THEN FALSE ELSE AllCharsIn(suffix, TOKEN_CHARS)

\* None, or Some(token)
extractToken(header) ==
  LET parsed == parseAuthHeader(header)
  IN  IF parsed = None THEN None
      ELSE IF validateTokenFormat(parsed[1].token) THEN Some(parsed[1].token) ELSE None

(***************************************************************************)
(* lib/validation.ts                                                       *)
(***************************************************************************)
MAX_ORG_LENGTH == 255

ORG_NAME_CHARS == Lower \o Upper \o Digits \o "_-"

MAX_REPO_LENGTH == 100

REPO_NAME_CHARS == Lower \o Upper \o Digits \o "_.-"

RECURSIVE FilterNonEmpty(_)
FilterNonEmpty(seq) ==
  IF seq = <<>> THEN <<>>
  ELSE (IF Len(Head(seq)) > 0 THEN <<Head(seq)>> ELSE <<>>) \o FilterNonEmpty(Tail(seq))

parseAllowedOrgs(allowedOrgs) ==
  LET parts == SplitComma(allowedOrgs)
  IN  FilterNonEmpty([i \in 1..Len(parts) |-> Trim(parts[i])])

\* validateOrganization without the allow-list lookup
validateOrganization_NoAllowList(allowedOrgs, org) ==
  IF org = "" \/ Len(org) > MAX_ORG_LENGTH THEN FALSE
  ELSE AllCharsIn(org, ORG_NAME_CHARS)

\* validateOrganization admitting an org that begins with an allowed entry
validateOrganization_PrefixMatch(allowedOrgs, org) ==
  IF org = "" \/ Len(org) > MAX_ORG_LENGTH THEN FALSE
  ELSE IF ~AllCharsIn(org, ORG_NAME_CHARS) THEN FALSE
  ELSE \E i \in 1..Len(parseAllowedOrgs(allowedOrgs)) : StartsWith(org, parseAllowedOrgs(allowedOrgs)[i])

validateOrganization(allowedOrgs, org) ==
  IF org = "" \/ Len(org) > MAX_ORG_LENGTH THEN FALSE
  ELSE IF ~AllCharsIn(org, ORG_NAME_CHARS) THEN FALSE
  ELSE \E i \in 1..Len(parseAllowedOrgs(allowedOrgs)) : parseAllowedOrgs(allowedOrgs)[i] = org

validateRepoName(repo) ==
  IF repo = "" \/ Len(repo) > MAX_REPO_LENGTH THEN FALSE
  ELSE IF ~AllCharsIn(repo, REPO_NAME_CHARS) THEN FALSE
  ELSE IF StartsWith(repo, ".") THEN FALSE
  ELSE TRUE

(***************************************************************************)
(* JavaScript numbers: an integer or NaN.  Number.parseInt(s, 10) and      *)
(* String(n).                                                              *)
(***************************************************************************)
Num(v) == [nan |-> FALSE, v |-> v]

NaN == [nan |-> TRUE, v |-> 0]

DigitVal(c) == IndexOf(Digits, c)

\* the longest prefix of s made of decimal digits
RECURSIVE DigitPrefix(_)
DigitPrefix(s) ==
  IF s # "" /\ Includes(Digits, CharAt(s, 1))
  THEN CharAt(s, 1) \o DigitPrefix(Slice(s, 1))
  ELSE ""

RECURSIVE DigitsValue(_)
DigitsValue(s) ==
  IF s = "" THEN 0
  ELSE DigitsValue(SubSeq(s, 1, Len(s) - 1)) * 10 + DigitVal(CharAt(s, Len(s)))

parseInt(str) ==
  LET s    == TrimStart(str)
      neg  == StartsWith(s, "-")
      body == IF StartsWith(s, "-") \/ StartsWith(s, "+") THEN Slice(s, 1) ELSE s
      ds   == DigitPrefix(body)
  IN  IF ds = "" THEN NaN
      ELSE Num(IF neg THEN 0 - DigitsValue(ds) ELSE DigitsValue(ds))

RECURSIVE NatToString(_)
NatToString(n) ==
  IF n < 10 THEN CharAt(Digits, n + 1)
  ELSE NatToString(n \div 10) \o CharAt(Digits, (n % 10) + 1)

String(n) ==
  IF n.nan THEN "NaN"
  ELSE IF n.v < 0 THEN "-" \o NatToString(0 - n.v)
  ELSE NatToString(n.v)

(***************************************************************************)
(* services/github.ts                                                      *)
(***************************************************************************)
Levels == {"admin", "write", "read", "none"}

\* mapGitHubPermissions testing pull before push
mapGitHubPermissions_PullBeforePush(permissions) ==
  IF permissions.admin THEN "admin"
  ELSE IF permissions.pull THEN "read"
  ELSE IF permissions.push THEN "write"
  ELSE "none"

mapGitHubPermissions(permissions) ==
  IF permissions.admin THEN "admin"
  ELSE IF permissions.push THEN "write"
  ELSE IF permissions.pull THEN "read"
  ELSE "none"

\* hasOperationPermission with upload granted to admin alone
hasOperationPermission_AdminUploads(permission, operation) ==
  IF operation = "download" THEN permission # "none"
  ELSE permission = "admin"

\* hasOperationPermission with upload granted to every level but none
hasOperationPermission_AnyAccess(permission, operation) == permission # "none"

hasOperationPermission(permission, operation) ==
  IF operation = "download" THEN permission # "none"
  ELSE permission = "admin" \/ permission = "write"

\* What fetch() to api.github.com produced: a rejection (failed, with the
\* message of the thrown error) or a response with a status, the three
\* headers the code reads, and a JSON body.  body.json = FALSE: the body
\* is not JSON and response.json() throws a SyntaxError.
FetchFailure(message) ==
  [failed |-> TRUE, message |-> message, status |-> 0, retryAfter |-> None,
   remaining |-> None, reset |-> None,
   body |-> [json |-> FALSE, private |-> None, permissions |-> None]]

Response(status, retryAfter, remaining, reset, body) ==
  [failed |-> FALSE, message |-> "", status |-> status, retryAfter |-> retryAfter,
   remaining |-> remaining, reset |-> reset, body |-> body]

JsonBody(private, permissions) == [json |-> TRUE, private |-> private, permissions |-> permissions]

NotJson == [json |-> FALSE, private |-> None, permissions |-> None]

Perms(admin, push, pull) == Some([admin |-> admin, push |-> push, pull |-> pull])

\* Results of an async function: a returned value or a thrown error.
Return(v) == [threw |-> FALSE, value |-> v,
              error |-> [class |-> "", message |-> "", retryAfter |-> None, resetAt |-> None]]

Throw(class, message, retryAfter, resetAt) ==
  [threw |-> TRUE, value |-> "",
   error |-> [class |-> class, message |-> message, retryAfter |-> retryAfter, resetAt |-> resetAt]]

\* header ? Number.parseInt(header, 10) : undefined
ParseHeader(h) == IF h = None \/ h = Some("") THEN None ELSE Some(parseInt(h[1]))

\* getRepositoryPermission reading every 403 as "no access"
getRepositoryPermission_No403RateLimit(response) ==
  IF response.failed THEN Throw("TypeError", response.message, None, None)
  ELSE IF response.status = 429
  THEN Throw("GitHubRateLimitError", "Rate limit exceeded", ParseHeader(response.retryAfter), None)
  ELSE IF response.status = 403 \/ response.status = 404 \/ response.status = 401 THEN Return("none")
  ELSE IF response.status >= 500
  THEN Throw("Error", "GitHub API error: " \o NatToString(response.status), None, None)
  ELSE IF ~response.body.json
  THEN Throw("SyntaxError", "Unexpected token in JSON", None, None)
  ELSE IF response.body.permissions = None
  THEN IF response.body.private = Some(TRUE) THEN Return("none") ELSE Return("read")
  ELSE Return(mapGitHubPermissions(response.body.permissions[1]))

\* getRepositoryPermission treating 404 and 401 as errors of the API
getRepositoryPermission_NotFoundThrows(response) ==
  IF response.failed THEN Throw("TypeError", response.message, None, None)
  ELSE IF response.status = 429
  THEN Throw("GitHubRateLimitError", "Rate limit exceeded", ParseHeader(response.retryAfter), None)
  ELSE IF response.status = 403
  THEN IF response.remaining = Some("0")
       THEN Throw("GitHubRateLimitError", "Rate limit exceeded", None, ParseHeader(response.reset))
       ELSE Return("none")
  ELSE IF response.status >= 400
  THEN Throw("Error", "GitHub API error: " \o NatToString(response.status), None, None)
  ELSE IF ~response.body.json
  THEN Throw("SyntaxError", "Unexpected token in JSON", None, None)
  ELSE IF response.body.permissions = None
  THEN IF response.body.private = Some(TRUE) THEN Return("none") ELSE Return("read")
  ELSE Return(mapGitHubPermissions(response.body.permissions[1]))

\* getRepositoryPermission granting read whenever permissions is missing
getRepositoryPermission_MissingIsRead(response) ==
  IF response.failed THEN Throw("TypeError", response.message, None, None)
  ELSE IF response.status = 429
  THEN Throw("GitHubRateLimitError", "Rate limit exceeded", ParseHeader(response.retryAfter), None)
  ELSE IF response.status = 403
  THEN IF response.remaining = Some("0")
       THEN Throw("GitHubRateLimitError", "Rate limit exceeded", None, ParseHeader(response.reset))
       ELSE Return("none")
  ELSE IF response.status = 404 \/ response.status = 401 THEN Return("none")
  ELSE IF response.status >= 500
  THEN Throw("Error", "GitHub API error: " \o NatToString(response.status), None, None)
  ELSE IF ~response.body.json
  THEN Throw("SyntaxError", "Unexpected token in JSON", None, None)
  ELSE IF response.body.permissions = None THEN Return("read")
  ELSE Return(mapGitHubPermissions(response.body.permissions[1]))

getRepositoryPermission(response) ==
  IF response.failed THEN Throw("TypeError", response.message, None, None)
  ELSE IF response.status = 429
  THEN Throw("GitHubRateLimitError", "Rate limit exceeded", ParseHeader(response.retryAfter), None)
  ELSE IF response.status = 403
  THEN IF response.remaining = Some("0")
       THEN Throw("GitHubRateLimitError", "Rate limit exceeded", None, ParseHeader(response.reset))
       ELSE Return("none")
  ELSE IF response.status = 404 \/ response.status = 401 THEN Return("none")
  ELSE IF response.status >= 500
  THEN Throw("Error", "GitHub API error: " \o NatToString(response.status), None, None)
  ELSE IF ~response.body.json
  THEN Throw("SyntaxError", "Unexpected token in JSON", None, None)
  ELSE IF response.body.permissions = None
  THEN IF response.body.private = Some(TRUE) THEN Return("none") ELSE Return("read")
  ELSE Return(mapGitHubPermissions(response.body.permissions[1]))

(***************************************************************************)
(* services/cache.ts.  SHA-256 is tabulated on the credentials of the      *)
(* model (the digests are the real ones).                                  *)
(***************************************************************************)
hashToken(token) ==
  CASE token = "ghp_a1" -> "ba51c6292bb00beb56f202d73f1adb6c1e59aa8594dadef0e4219707f500b0e2"
    [] token = "ghs_B2" -> "3326ca3294195c837cd21e6a777643e1d4887e643f5eaaea47345436630d6830"
    [] token = "github_pat_Z9" -> "9a4f1e55fcb8bc506746790685094d479e5e900ede8fdf152d8f9e51981380e4"
    [] token = "ghp_" \o Repeat("a", MAX_TOKEN_LENGTH - 4)
         -> "1c3e572a2ce1688c99d385a3df0a1b6a48981648aefd981badd90afb25ee2559"

\* generateCacheKey on the credential itself instead of its digest
generateCacheKey_RawToken(token, org, repo) == "perm:" \o token \o ":" \o org \o "/" \o repo

\* generateCacheKey without the repository
generateCacheKey_NoRepo(token, org, repo) == "perm:" \o hashToken(token) \o ":" \o org

generateCacheKey(token, org, repo) == "perm:" \o hashToken(token) \o ":" \o org \o "/" \o repo

(***************************************************************************)
(* lib/validation.ts: object identifiers and sizes.  A size is a JSON      *)
(* value: an integer, or something that is not an integer (a fraction,     *)
(* NaN, an infinity, a string).                                            *)
(***************************************************************************)
HexChars == "0123456789abcdef"

isValidOID(oid) == Len(oid) = 64 /\ AllCharsIn(oid, HexChars)

IntSize(v) == [kind |-> "int", v |-> v]

OtherSize(kind) == [kind |-> kind, v |-> 0]

isValidSize(size) == size.kind = "int" /\ size.v >= 0

(***************************************************************************)
(* services/r2.ts and services/lfs.ts                                      *)
(***************************************************************************)
MAX_BATCH_OBJECTS == 100

URL_EXPIRY == 900

generateObjectKey(org, repo, oid) == org \o "/" \o repo \o "/" \o SubSeq(oid, 1, 2) \o "/" \o oid

\* The signed URL: the signature itself is the signer's business.
generatePresignedUrl(objectKey, method) == method \o " " \o objectKey \o "?X-Amz-Expires=" \o NatToString(URL_EXPIRY)

generateUploadUrl(org, repo, oid) == generatePresignedUrl(generateObjectKey(org, repo, oid), "PUT")

generateDownloadUrl(org, repo, oid) == generatePresignedUrl(generateObjectKey(org, repo, oid), "GET")

Valid == [valid |-> TRUE, error |-> "", status |-> 0]

Invalid(error, status) == [valid |-> FALSE, error |-> error, status |-> status]

\* request.transfers.includes("basic")
SeqIncludes(seq, v) == \E i \in 1..Len(seq) : seq[i] = v

\* the loop over request.objects looking at the first object alone
validateObjects_FirstOnly(objects) ==
  IF Len(objects) = 0 THEN Valid
  ELSE IF ~isValidOID(objects[1].oid) THEN Invalid("Invalid OID format", 422)
  ELSE IF ~isValidSize(objects[1].size) THEN Invalid("Invalid size", 422)
  ELSE Valid

\* the for loop over request.objects: it returns at the first object that
\* fails a check, with the OID of that object checked before its size
validateObjects(objects) ==
  LET failing == { i \in 1..Len(objects) :
                     ~isValidOID(objects[i].oid) \/ ~isValidSize(objects[i].size) }
  IN  IF failing = {} THEN Valid
      ELSE LET first == CHOOSE i \in failing : \A j \in failing : i <= j
           IN  IF ~isValidOID(objects[first].oid) THEN Invalid("Invalid OID format", 422)
               ELSE Invalid("Invalid size", 422)

\* validateBatchRequest counting the objects after checking each of them
validateBatchRequest_CountAfterObjects(request) ==
  IF request.operation # "download" /\ request.operation # "upload"
  THEN Invalid("Invalid operation", 422)
  ELSE IF ~request.isArray \/ Len(request.objects) = 0
  THEN Invalid("Objects array is required and must not be empty", 422)
  ELSE IF ~validateObjects(request.objects).valid THEN validateObjects(request.objects)
  ELSE IF Len(request.objects) > MAX_BATCH_OBJECTS
  THEN Invalid("Batch request contains too many objects", 413)
  ELSE IF request.transfers # None /\ ~SeqIncludes(request.transfers[1], "basic")
  THEN Invalid("Only basic transfer adapter is supported", 422)
  ELSE IF request.hash_algo # None /\ request.hash_algo # Some("sha256")
  THEN Invalid("Only sha256 hash algorithm is supported", 409)
  ELSE Valid

validateBatchRequest(request) ==
  IF request.operation # "download" /\ request.operation # "upload"
  THEN Invalid("Invalid operation", 422)
  ELSE IF ~request.isArray \/ Len(request.objects) = 0
  THEN Invalid("Objects array is required and must not be empty", 422)
  ELSE IF Len(request.objects) > MAX_BATCH_OBJECTS
  THEN Invalid("Batch request contains too many objects", 413)
  ELSE IF ~validateObjects(request.objects).valid THEN validateObjects(request.objects)
  ELSE IF request.transfers # None /\ ~SeqIncludes(request.transfers[1], "basic")
  THEN Invalid("Only basic transfer adapter is supported", 422)
  ELSE IF request.hash_algo # None /\ request.hash_algo # Some("sha256")
  THEN Invalid("Only sha256 hash algorithm is supported", 409)
  ELSE Valid

ObjectResponse(obj, authenticated, actions, error) ==
  [oid |-> obj.oid, size |-> obj.size, authenticated |-> authenticated,
   actions |-> actions, error |-> error]

ObjectError(code, message) == Some([code |-> code, message |-> message])

Action(kind, href) == Some([kind |-> kind, href |-> href, expires_in |-> URL_EXPIRY])

\* processDownloadObject reporting a size mismatch on the result that also
\* carries the download action
processDownloadObject_ActionWithError(org, repo, obj, env) ==
  IF env.head = "throws" THEN ObjectResponse(obj, None, None, ObjectError(500, "Storage service error"))
  ELSE IF env.head # "exists" THEN ObjectResponse(obj, None, None, ObjectError(404, "Object not found"))
  ELSE IF env.sign = "throws" THEN ObjectResponse(obj, None, None, ObjectError(500, "Storage service error"))
  ELSE ObjectResponse(obj, Some(TRUE), Action("download", generateDownloadUrl(org, repo, obj.oid)),
                      IF env.size # obj.size THEN ObjectError(422, "Object size mismatch") ELSE None)

\* processDownloadObject without the comparison of sizes
processDownloadObject_NoSizeCheck(org, repo, obj, env) ==
  IF env.head = "throws" THEN ObjectResponse(obj, None, None, ObjectError(500, "Storage service error"))
  ELSE IF env.head # "exists" THEN ObjectResponse(obj, None, None, ObjectError(404, "Object not found"))
  ELSE IF env.sign = "throws" THEN ObjectResponse(obj, None, None, ObjectError(500, "Storage service error"))
  ELSE ObjectResponse(obj, Some(TRUE), Action("download", generateDownloadUrl(org, repo, obj.oid)), None)

processDownloadObject(org, repo, obj, env) ==
  IF env.head = "throws" THEN ObjectResponse(obj, None, None, ObjectError(500, "Storage service error"))
  ELSE IF env.head # "exists" THEN ObjectResponse(obj, None, None, ObjectError(404, "Object not found"))
  ELSE IF env.size # obj.size THEN ObjectResponse(obj, None, None, ObjectError(422, "Object size mismatch"))
  ELSE IF env.sign = "throws" THEN ObjectResponse(obj, None, None, ObjectError(500, "Storage service error"))
  ELSE ObjectResponse(obj, Some(TRUE), Action("download", generateDownloadUrl(org, repo, obj.oid)), None)

\* processUploadObject issuing an upload action for an object that exists
processUploadObject_NoSkip(org, repo, obj, env) ==
  IF env.head = "throws" THEN ObjectResponse(obj, None, None, ObjectError(500, "Storage service error"))
  ELSE IF env.head = "exists" /\ env.size # obj.size
  THEN ObjectResponse(obj, None, None, ObjectError(422, "Object size mismatch"))
  ELSE IF env.sign = "throws" THEN ObjectResponse(obj, None, None, ObjectError(500, "Storage service error"))
  ELSE ObjectResponse(obj, Some(TRUE), Action("upload", generateUploadUrl(org, repo, obj.oid)), None)

\* processUploadObject answering a missing object with a download action
processUploadObject_DownloadKind(org, repo, obj, env) ==
  IF env.head = "throws" THEN ObjectResponse(obj, None, None, ObjectError(500, "Storage service error"))
  ELSE IF env.head = "exists"
  THEN IF env.size = obj.size THEN ObjectResponse(obj, Some(TRUE), None, None)
       ELSE ObjectResponse(obj, None, None, ObjectError(422, "Object size mismatch"))
  ELSE IF env.sign = "throws" THEN ObjectResponse(obj, None, None, ObjectError(500, "Storage service error"))
  ELSE ObjectResponse(obj, Some(TRUE), Action("download", generateUploadUrl(org, repo, obj.oid)), None)

processUploadObject(org, repo, obj, env) ==
  IF env.head = "throws" THEN ObjectResponse(obj, None, None, ObjectError(500, "Storage service error"))
  ELSE IF env.head = "exists"
  THEN IF env.size = obj.size THEN ObjectResponse(obj, Some(TRUE), None, None)
       ELSE ObjectResponse(obj, None, None, ObjectError(422, "Object size mismatch"))
  ELSE IF env.sign = "throws" THEN ObjectResponse(obj, None, None, ObjectError(500, "Storage service error"))
  ELSE ObjectResponse(obj, Some(TRUE), Action("upload", generateUploadUrl(org, repo, obj.oid)), None)

\* does processing obj under env reach the URL signer?
SignerInvoked(operation, obj, env) ==
  IF operation = "download" THEN env.head = "exists" /\ env.size = obj.size
  ELSE env.head = "absent"

\* processBatchRequest with one try/catch around the whole batch: a throw
\* for one object makes every object an internal error
processBatchRequest_FailsTogether(org, repo, request, envs) ==
  [transfer |-> "basic",
   objects |-> [i \in 1..Len(request.objects) |->
                  IF \E k \in 1..Len(request.objects) :
                       \/ envs[k].head = "throws"
                       \/ /\ envs[k].sign = "throws"
                          /\ SignerInvoked(request.operation, request.objects[k], envs[k])
                  THEN ObjectResponse(request.objects[i], None, None,
                                      ObjectError(500, "Storage service error"))
                  ELSE IF request.operation = "download"
                  THEN processDownloadObject(org, repo, request.objects[i], envs[i])
                  ELSE processUploadObject(org, repo, request.objects[i], envs[i])],
   hash_algo |-> IF request.hash_algo # None /\ request.hash_algo # Some("") THEN request.hash_algo ELSE None]

\* processBatchRequest naming sha256 in every response
processBatchRequest_AlwaysHashAlgo(org, repo, request, envs) ==
  [transfer |-> "basic",
   objects |-> [i \in 1..Len(request.objects) |->
                  IF request.operation = "download"
                  THEN processDownloadObject(org, repo, request.objects[i], envs[i])
                  ELSE processUploadObject(org, repo, request.objects[i], envs[i])],
   hash_algo |-> Some("sha256")]

\* envs: one environment outcome per object of the batch
processBatchRequest(org, repo, request, envs) ==
  [transfer |-> "basic",
   objects |-> [i \in 1..Len(request.objects) |->
                  IF request.operation = "download"
                  THEN processDownloadObject(org, repo, request.objects[i], envs[i])
                  ELSE processUploadObject(org, repo, request.objects[i], envs[i])],
   hash_algo |-> IF request.hash_algo # None /\ request.hash_algo # Some("") THEN request.hash_algo ELSE None]

(***************************************************************************)
(* The environment of the model: configuration, requests, GitHub answers,  *)
(* bucket and signer outcomes.                                             *)
(***************************************************************************)
\* ticks of the clock (seconds) the model follows
MaxTime == 2

\* env.AUTH_CACHE_TTL, in ticks of the clock
AUTH_CACHE_TTL == 1

\* env.ALLOWED_ORGS
ALLOWED_ORGS == "acme, beta"

\* Authorization headers: absent, bearer and basic carriers of the two
\* credentials, a credential of the wrong shape, undecodable base64 and
\* base64 of a value without a colon
Headers ==
  { None, Some("Bearer ghp_a1"), Some("Basic Z2l0Omdoc19CMg=="),
    Some("Bearer nope_a1"), Some("Basic !!!"), Some("Basic Z2hwX2Ex") }

\* Authorization headers of the authentication specification: the above;
\* carriers in other letter cases; basic values with an empty user name, two
\* colons and an empty password; the third prefix; credentials with an empty
\* or ill-formed continuation, a prefix in the wrong case, a leading space;
\* an unknown carrier, no carrier, carriers without a value, the empty
\* header; credentials of 1000 and of 1001 characters
HeadersAuth ==
  Headers \cup
  { Some("bearer ghp_a1"), Some("BEARER ghs_B2"), Some("basic Z2l0Omdoc19CMg=="),
    Some("Basic OmdocF9hMQ=="), Some("Basic Z2l0OnBhc3M6Z2hwX2Ex"), Some("Basic Z2l0Og=="),
    Some("Bearer github_pat_Z9"), Some("Bearer ghp_"), Some("Bearer ghp_a-1"),
    Some("Bearer ghp_a1 x"), Some("Bearer GHP_a1"), Some("Bearer  ghp_a1"),
    Some("Token ghp_a1"), Some("ghp_a1"), Some("Bearer"), Some("Bearer "), Some("Basic "),
    Some(""), Some("Bearer ghp_" \o Repeat("a", MAX_TOKEN_LENGTH - 4)),
    Some("Bearer ghp_" \o Repeat("a", MAX_TOKEN_LENGTH - 3)) }

\* :org path parameters: allowed, well-formed but not allowed, not an
\* identifier, too long
Orgs == { "acme", "evil", "acme/..", Repeat("a", MAX_ORG_LENGTH + 1) }

\* :org path parameters of the authentication specification: the above, the
\* second allowed entry, and values that differ from an allowed entry in
\* case, by a comma, a suffix, a path-traversal prefix, a missing character
\* or a leading space
OrgsAuth ==
  Orgs \cup { "beta", "ACME", "acme,beta", "acme-evil", "../acme", "acm", " acme", "acme/evil" }

\* :repoGit path parameters
RepoGits == { "repo.git", "repo" }

\* :repoGit path parameters of the single-request specification: the above
\* and names validateRepoName rejects
RepoGitsOne == RepoGits \cup { ".hidden", "re po.git" }

OidA == Repeat("a", 64)

Batch(operation, objects, transfers, hash_algo) ==
  [parses |-> TRUE, operation |-> operation, isArray |-> TRUE, objects |-> objects,
   transfers |-> transfers, hash_algo |-> hash_algo]

Obj(oid, size) == [oid |-> oid, size |-> size]

\* request bodies: not JSON, and batches failing each check or none
Bodies ==
  { [Batch("download", <<>>, None, None) EXCEPT !.parses = FALSE],
    Batch("delete", <<Obj(OidA, IntSize(5))>>, None, None),
    Batch("download", <<>>, None, None),
    [Batch("upload", <<>>, None, None) EXCEPT !.isArray = FALSE],
    Batch("download", [i \in 1..(MAX_BATCH_OBJECTS + 1) |-> Obj(OidA, IntSize(5))], None, None),
    Batch("upload", <<Obj(Repeat("A", 64), IntSize(5))>>, None, None),
    Batch("download", <<Obj(OidA, IntSize(0 - 1))>>, None, None),
    Batch("upload", <<Obj(OidA, OtherSize("fraction"))>>, None, None),
    Batch("download", <<Obj(OidA, IntSize(5))>>, Some(<<"tus">>), None),
    Batch("upload", <<Obj(OidA, IntSize(5))>>, None, Some("md5")),
    Batch("download", <<Obj(OidA, IntSize(5))>>, None, None),
    Batch("upload", <<Obj(OidA, IntSize(5))>>, Some(<<"tus", "basic">>), Some("sha256")) }

\* objects per batch in the batches enumerated below
MaxObjects == 2

\* one object of each kind: valid, malformed OID, invalid size, both
ObjectKinds ==
  { Obj(OidA, IntSize(5)), Obj(Repeat("A", 64), IntSize(5)),
    Obj(OidA, IntSize(0 - 1)), Obj(Repeat("a", 63), OtherSize("fraction")) }

\* sequences of at most MaxObjects objects
ObjectLists == UNION { [1..n -> ObjectKinds] : n \in 0..MaxObjects }

\* objects that deviate in one respect: the OID in case, length or
\* character set; the size negative, fractional, NaN, infinite or a string
DeviantObjects ==
  { Obj(Repeat("a", 63) \o "F", IntSize(5)), Obj(Repeat("a", 63), IntSize(5)),
    Obj(Repeat("a", 65), IntSize(5)), Obj(Repeat("a", 63) \o "g", IntSize(5)),
    Obj(Repeat("a", 63) \o " ", IntSize(5)), Obj("", IntSize(5)),
    Obj(OidA, IntSize(0 - 1)), Obj(OidA, OtherSize("fraction")), Obj(OidA, OtherSize("NaN")),
    Obj(OidA, OtherSize("Infinity")), Obj(OidA, OtherSize("string")) }

\* a batch of n copies of the valid object with obj in place i
LongBatch(n, i, obj) == [j \in 1..n |-> IF j = i THEN obj ELSE Obj(OidA, IntSize(5))]

\* request bodies of the single-request specification: every combination of
\* operation, object list, transfers and hash algorithm, an objects member
\* that is no array, and batches of MAX_BATCH_OBJECTS and one more objects
Batches ==
  { Batch(op, objs, tr, ha) :
      op \in {"download", "upload", "delete"}, objs \in ObjectLists,
      tr \in {None, Some(<<"tus">>)}, ha \in {None, Some("md5")} }
  \cup { [Batch("upload", <<>>, None, None) EXCEPT !.isArray = FALSE],
         [Batch("download", <<>>, None, None) EXCEPT !.parses = FALSE],
         Batch("download", <<Obj(OidA, IntSize(5))>>, Some(<<"tus", "basic">>), Some("sha256")),
         Batch("upload", <<Obj(OidA, IntSize(5)), Obj(OidA, IntSize(7))>>, Some(<<"basic">>), Some("sha256")),
         Batch("download", <<Obj(OidA, IntSize(5))>>, None, Some("")) }
  \cup { Batch("download", LongBatch(n, i, obj), None, None) :
           n \in 1..MaxObjects, i \in 1..MaxObjects, obj \in DeviantObjects \cup {Obj(OidA, IntSize(0))} }
  \cup { Batch("download", LongBatch(n, n, obj), None, ha) :
           n \in {MAX_BATCH_OBJECTS, MAX_BATCH_OBJECTS + 1}, obj \in ObjectKinds,
           ha \in {None, Some("md5")} }

AllPerms == { Perms(a, p, r)[1] : a \in BOOLEAN, p \in BOOLEAN, r \in BOOLEAN }

\* what api.github.com may answer
OracleResponses ==
  { Response(200, None, Some("4999"), None, JsonBody(Some(TRUE), Some(p))) : p \in AllPerms }
  \cup { Response(200, None, None, None, JsonBody(Some(priv), None)) : priv \in BOOLEAN }
  \cup { Response(200, None, None, None, NotJson),
         Response(200, None, None, None, JsonBody(None, None)),
         Response(401, None, None, None, JsonBody(None, None)),
         Response(404, None, None, None, JsonBody(None, None)),
         Response(403, None, Some("4999"), None, JsonBody(None, None)),
         Response(403, None, None, None, JsonBody(None, None)),
         Response(403, None, Some("0"), Some("5"), JsonBody(None, None)),
         Response(403, None, Some("0"), Some("1"), JsonBody(None, None)),
         Response(403, None, Some("0"), Some("0"), JsonBody(None, None)),
         Response(403, None, Some("0"), None, JsonBody(None, None)),
         Response(429, Some("60"), None, None, JsonBody(None, None)),
         Response(429, Some("soon"), None, None, NotJson),
         Response(429, None, None, None, JsonBody(None, None)),
         Response(500, None, None, None, JsonBody(None, None)),
         Response(503, None, None, None, NotJson),
         FetchFailure("Network connection lost"),
         FetchFailure("The operation was aborted due to timeout") }

\* what the bucket (head) and the signer do for one object
ObjectEnvs ==
  { [head |-> "throws", size |-> IntSize(0), sign |-> "ok"],
    [head |-> "absent", size |-> IntSize(0), sign |-> "ok"],
    [head |-> "absent", size |-> IntSize(0), sign |-> "throws"],
    [head |-> "exists", size |-> IntSize(5), sign |-> "ok"],
    [head |-> "exists", size |-> IntSize(5), sign |-> "throws"],
    [head |-> "exists", size |-> IntSize(7), sign |-> "ok"] }

\* what the bucket and the signer do for the n objects of a batch: any
\* outcome per object up to MaxObjects objects, one outcome for all beyond
EnvChoices(n) ==
  IF n <= MaxObjects THEN [1..n -> ObjectEnvs]
  ELSE { [i \in 1..n |-> e] : e \in ObjectEnvs }

\* the requests in flight
Slots == { "r1" }

\* The pure stages of the handler on the inputs above, evaluated once.
\* extractToken(c.req.raw)
TokenOf == [h \in HeadersAuth |-> extractToken(h)]

\* validateOrganization(c.env, org)
OrgAllowed == [o \in OrgsAuth \cup {""} |-> validateOrganization(ALLOWED_ORGS, o)]

\* validateBatchRequest(body)
Validation == [b \in { b \in Bodies \cup Batches : b.parses } |-> validateBatchRequest(b)]

\* getRepositoryPermission(token, org, repo) on each answer of api.github.com
Permission == [r \in OracleResponses |-> getRepositoryPermission(r)]

(***************************************************************************)
(* State.                                                                  *)
(*   cache  the AUTH_CACHE namespace: entries [key, value, exp]; an entry  *)
(*          put at time t with expirationTtl lives while the clock is      *)
(*          below exp = t + AUTH_CACHE_TTL.  get and put return normally.  *)
(*   now    Math.floor(Date.now() / 1000)                                  *)
(*   req    per request in flight: its inputs, the locals of the handler,  *)
(*          the response, and counts of the external calls it made;        *)
(*          oracle is the answer held by the getRepositoryPermission call, *)
(*          dropped once the handler goes on to read the body;             *)
(*          cacheAtStart is the namespace as the request found it;         *)
(*          results holds, per object of the batch, the value its promise  *)
(*          settled with (None while pending), order the positions in the  *)
(*          order in which the promises settled                            *)
(*   prev   the request handled before the current one, when it stored a   *)
(*          permission whose TTL has not lapsed: [token, org, repo, level, *)
(*          oracle, oracleCalls, exp]                                      *)
(***************************************************************************)
VARIABLES cache, now, req, prev

vars == <<cache, now, req, prev>>

\* AUTH_CACHE.get(key)
KvGet(c, key) ==
  IF \E e \in c : e.key = key THEN Some((CHOOSE e \in c : e.key = key).value) ELSE None

\* AUTH_CACHE.put(key, value, { expirationTtl })
KvPut(c, key, value, ttl, t) ==
  { e \in c : e.key # key } \cup { [key |-> key, value |-> value, exp |-> t + ttl] }

\* services/cache.ts on the namespace c
getCachedPermission(c, token, org, repo) == KvGet(c, generateCacheKey(token, org, repo))

\* setCachedPermission without expirationTtl: the entry outlives the clock
setCachedPermission_NoExpiry(c, token, org, repo, permission, t) ==
  KvPut(c, generateCacheKey(token, org, repo), permission, MaxTime + 1, t)

\* setCachedPermission leaving an entry that is already stored as it is
setCachedPermission_KeepExisting(c, token, org, repo, permission, t) ==
  IF KvGet(c, generateCacheKey(token, org, repo)) # None THEN c
  ELSE KvPut(c, generateCacheKey(token, org, repo), permission, AUTH_CACHE_TTL, t)

\* setCachedPermission deriving its key with org and repo exchanged
setCachedPermission_OtherKey(c, token, org, repo, permission, t) ==
  KvPut(c, generateCacheKey(token, repo, org), permission, AUTH_CACHE_TTL, t)

\* setCachedPermission storing the level read whatever the level resolved
setCachedPermission_AlwaysRead(c, token, org, repo, permission, t) ==
  KvPut(c, generateCacheKey(token, org, repo), "read", AUTH_CACHE_TTL, t)

setCachedPermission(c, token, org, repo, permission, t) ==
  KvPut(c, generateCacheKey(token, org, repo), permission, AUTH_CACHE_TTL, t)

\* the entries of c that are alive at time t
Live(c, t) == { e \in c : e.exp > t }

IdleReq ==
  [pc |-> "idle", header |-> None, org |-> "", token |-> None, repo |-> "",
   orgChecked |-> FALSE, cached |-> None, oracle |-> None, permission |-> None,
   stored |-> None, body |-> None, envs |-> <<>>, results |-> <<>>, order |-> <<>>,
   status |-> 0, message |-> "", authenticate |-> None, retryAfter |-> None, response |-> None,
   cacheGets |-> 0, cachePuts |-> 0, oracleCalls |-> 0, storeLookups |-> 0, signCalls |-> 0,
   cacheAtStart |-> {}]

\* lfsJson(c, { message }, status)
lfsJson(r, message, status) == [r EXCEPT !.pc = "done", !.status = status, !.message = message]

\* repoGit.replace(/\.git$/, "")
StripGit(repoGit) ==
  IF EndsWith(repoGit, ".git") THEN SubSeq(repoGit, 1, Len(repoGit) - 4) ELSE repoGit

\* Begin with the organization checked before the credential
Begin_OrgFirst(r) ==
  IF ~OrgAllowed[r.org]
  THEN [lfsJson(r, "Organization not allowed", 403) EXCEPT !.orgChecked = TRUE]
  ELSE IF r.token = None
  THEN [lfsJson(r, "Authentication required", 401) EXCEPT !.authenticate = Some("Basic realm=\"Git LFS\""),
                                                          !.orgChecked = TRUE]
  ELSE [r EXCEPT !.pc = "cacheGet", !.orgChecked = TRUE]

\* app.ts steps 1 and 2, up to the first await
Begin(r) ==
  IF r.token = None
  THEN [lfsJson(r, "Authentication required", 401) EXCEPT !.authenticate = Some("Basic realm=\"Git LFS\"")]
  ELSE IF ~OrgAllowed[r.org]
  THEN [lfsJson(r, "Organization not allowed", 403) EXCEPT !.orgChecked = TRUE]
  ELSE [r EXCEPT !.pc = "cacheGet", !.orgChecked = TRUE]

\* step 4 left out: a request without access goes on to read its body
CheckPermission_NoneReadsBody(r) == [r EXCEPT !.pc = "parseBody", !.oracle = None]

\* app.ts step 4, once getCachedPermission has returned
CheckPermission(r) ==
  IF r.permission = Some("none") THEN lfsJson(r, "Access denied", 403)
  ELSE [r EXCEPT !.pc = "parseBody", !.oracle = None]

\* error.resetAt is truthy
Truthy(n) == n # None /\ ~n[1].nan /\ n[1].v # 0

\* a - b on JavaScript numbers
Minus(a, b) == IF a.nan \/ b.nan THEN NaN ELSE Num(a.v - b.v)

\* HandleError answering an unclassified error with the text of the error
HandleError_ErrorTextInBody(r, error, t) ==
  IF error.class = "GitHubRateLimitError"
  THEN LET retryAfter == IF error.retryAfter # None THEN error.retryAfter
                         ELSE IF Truthy(error.resetAt) THEN Some(Minus(error.resetAt[1], Num(t)))
                         ELSE None
       IN  [lfsJson(r, "Rate limit exceeded", 429) EXCEPT
              !.retryAfter = IF retryAfter # None THEN Some(String(retryAfter[1])) ELSE None]
  ELSE IF Includes(error.message, "GitHub API error:")
  THEN lfsJson(r, "Upstream service error", 502)
  ELSE lfsJson(r, error.message, 500)

\* HandleError without the class of upstream errors
HandleError_NoUpstreamClass(r, error, t) ==
  IF error.class = "GitHubRateLimitError"
  THEN LET retryAfter == IF error.retryAfter # None THEN error.retryAfter
                         ELSE IF Truthy(error.resetAt) THEN Some(Minus(error.resetAt[1], Num(t)))
                         ELSE None
       IN  [lfsJson(r, "Rate limit exceeded", 429) EXCEPT
              !.retryAfter = IF retryAfter # None THEN Some(String(retryAfter[1])) ELSE None]
  ELSE lfsJson(r, "Internal server error", 500)

\* HandleError reporting every other error as an upstream error
HandleError_AnyErrorIsUpstream(r, error, t) ==
  IF error.class = "GitHubRateLimitError"
  THEN LET retryAfter == IF error.retryAfter # None THEN error.retryAfter
                         ELSE IF Truthy(error.resetAt) THEN Some(Minus(error.resetAt[1], Num(t)))
                         ELSE None
       IN  [lfsJson(r, "Rate limit exceeded", 429) EXCEPT
              !.retryAfter = IF retryAfter # None THEN Some(String(retryAfter[1])) ELSE None]
  ELSE lfsJson(r, "Upstream service error", 502)

\* app.ts catch block of step 3
HandleError(r, error, t) ==
  IF error.class = "GitHubRateLimitError"
  THEN LET retryAfter == IF error.retryAfter # None THEN error.retryAfter
                         ELSE IF Truthy(error.resetAt) THEN Some(Minus(error.resetAt[1], Num(t)))
                         ELSE None
       IN  [lfsJson(r, "Rate limit exceeded", 429) EXCEPT
              !.retryAfter = IF retryAfter # None THEN Some(String(retryAfter[1])) ELSE None]
  ELSE IF Includes(error.message, "GitHub API error:")
  THEN lfsJson(r, "Upstream service error", 502)
  ELSE lfsJson(r, "Internal server error", 500)

\* CheckBody with the operation checked before the batch is validated
CheckBody_PermissionFirst(r, body) ==
  IF ~body.parses THEN lfsJson([r EXCEPT !.body = Some(body)], "Invalid JSON body", 422)
  ELSE IF ~hasOperationPermission(r.permission[1], body.operation)
  THEN lfsJson([r EXCEPT !.body = Some(body)], "Insufficient permissions for this operation", 403)
  ELSE IF ~Validation[body].valid
  THEN lfsJson([r EXCEPT !.body = Some(body)], Validation[body].error, 422)
  ELSE [r EXCEPT !.pc = "process", !.body = Some(body)]

\* app.ts steps 5 to 7 on the body read from the request
CheckBody(r, body) ==
  IF ~body.parses THEN lfsJson([r EXCEPT !.body = Some(body)], "Invalid JSON body", 422)
  ELSE IF ~Validation[body].valid
  THEN lfsJson([r EXCEPT !.body = Some(body)], Validation[body].error, 422)
  ELSE IF ~hasOperationPermission(r.permission[1], body.operation)
  THEN lfsJson([r EXCEPT !.body = Some(body)], "Insufficient permissions for this operation", 403)
  ELSE [r EXCEPT !.pc = "process", !.body = Some(body)]

\* AfterOracle storing "none" when fn throws
AfterOracle_CacheNoneOnError(r, result, t) ==
  IF result.threw THEN [r EXCEPT !.pc = "cachePut", !.permission = Some("none")]
  ELSE [r EXCEPT !.pc = "cachePut", !.permission = Some(result.value)]

\* withCache once fn(token, org, repo) has settled: a thrown error leaves
\* withCache and reaches the catch block of app.ts; a returned level is stored
AfterOracle(r, result, t) ==
  IF result.threw THEN HandleError(r, result.error, t)
  ELSE [r EXCEPT !.pc = "cachePut", !.permission = Some(result.value)]

\* AfterCacheGet taking a cached "none" for a miss
AfterCacheGet_NoneIsMiss(r, cached) ==
  IF cached # None /\ cached # Some("none") THEN CheckPermission([r EXCEPT !.permission = cached])
  ELSE [r EXCEPT !.pc = "oracle"]

\* withCache once the namespace has answered: a hit returns the cached
\* level, a miss calls fn
AfterCacheGet(r, cached) ==
  IF cached # None THEN CheckPermission([r EXCEPT !.permission = cached])
  ELSE [r EXCEPT !.pc = "oracle"]

\* what a finished request leaves for the next one to be compared with
Summary(r, t) ==
  IF r.pc = "done" /\ r.stored # None /\ r.stored[1] > t
  THEN Some([token |-> r.token[1], org |-> r.org, repo |-> r.repo,
             level |-> r.permission[1], oracle |-> r.oracle, oracleCalls |-> r.oracleCalls,
             exp |-> r.stored[1]])
  ELSE None

Init ==
  /\ cache = {}
  /\ now = 0
  /\ req = [s \in Slots |-> IdleReq]
  /\ prev = None

\* a request arrives: token extraction and organization admission
Receive(s) ==
  /\ req[s].pc \in {"idle", "done"}
  /\ \E header \in Headers, org \in Orgs, repoGit \in RepoGits :
       req' = [req EXCEPT ![s] =
                 Begin([IdleReq EXCEPT !.header = header, !.org = org,
                                       !.repo = StripGit(repoGit),
                                       !.token = TokenOf[header],
                                       !.cacheAtStart = cache])]
  /\ prev' = Summary(req[s], now)
  /\ UNCHANGED <<cache, now>>

\* withCache: getCachedPermission
CacheGet(s) ==
  /\ req[s].pc = "cacheGet"
  /\ LET r      == req[s]
         cached == getCachedPermission(cache, r.token[1], r.org, r.repo)
     IN  req' = [req EXCEPT ![s] =
                   AfterCacheGet([r EXCEPT !.cached = cached, !.cacheGets = @ + 1], cached)]
  /\ UNCHANGED <<cache, now, prev>>

\* withCache: fn(token, org, repo), and the catch block of app.ts when it throws
OracleCall(s) ==
  /\ req[s].pc = "oracle"
  /\ \E response \in OracleResponses :
       req' = [req EXCEPT ![s] =
                 AfterOracle([req[s] EXCEPT !.oracle = Some(response), !.oracleCalls = @ + 1],
                             Permission[response], now)]
  /\ UNCHANGED <<cache, now, prev>>

\* withCache: setCachedPermission, then step 4
CachePut(s) ==
  /\ req[s].pc = "cachePut"
  /\ LET r == req[s]
     IN  /\ cache' = setCachedPermission(cache, r.token[1], r.org, r.repo, r.permission[1], now)
         /\ req' = [req EXCEPT ![s] =
                      CheckPermission([r EXCEPT !.cachePuts = @ + 1,
                                                !.stored = Some(now + AUTH_CACHE_TTL)])]
  /\ UNCHANGED <<now, prev>>

\* steps 5 to 7: read the body, validate it, check the operation
ParseBody(s) ==
  /\ req[s].pc = "parseBody"
  /\ \E body \in Bodies : req' = [req EXCEPT ![s] = CheckBody(req[s], body)]
  /\ UNCHANGED <<cache, now, prev>>

\* step 8: processBatchRequest and the 200 response
Process(s) ==
  /\ req[s].pc = "process"
  /\ LET r    == req[s]
         body == r.body[1]
     IN  \E envs \in EnvChoices(Len(body.objects)) :
           req' = [req EXCEPT ![s] =
                     [r EXCEPT !.pc = "done", !.status = 200, !.envs = envs,
                               !.response = Some(processBatchRequest(r.org, r.repo, body, envs)),
                               !.storeLookups = Len(body.objects),
                               !.signCalls = Cardinality({ i \in 1..Len(body.objects) :
                                               SignerInvoked(body.operation, body.objects[i], envs[i]) })]]
  /\ UNCHANGED <<cache, now, prev>>

\* a second passes; the namespace drops the entries whose TTL has lapsed
Tick ==
  /\ now < MaxTime
  /\ now' = now + 1
  /\ cache' = Live(cache, now + 1)
  /\ prev' = IF prev # None /\ prev[1].exp <= now + 1 THEN None ELSE prev
  /\ UNCHANGED req

\* processObject of processBatchRequest
processObject(org, repo, operation, obj, env) ==
  IF operation = "download" THEN processDownloadObject(org, repo, obj, env)
  ELSE processUploadObject(org, repo, obj, env)

\* Promise.all collecting the values in the order in which they settled
PromiseAll_CompletionOrder(results, order) == [k \in 1..Len(order) |-> results[order[k]][1]]

\* Promise.all: the values of the settled promises, each at the position of
\* its promise in the input array
PromiseAll(results, order) == [i \in 1..Len(results) |-> results[i][1]]

\* step 8, processBatchRequest: request.objects.map starts one promise per
\* object
StartBatch(s) ==
  /\ req[s].pc = "process"
  /\ \E envs \in EnvChoices(Len(req[s].body[1].objects)) :
       req' = [req EXCEPT ![s] =
                 [req[s] EXCEPT !.pc = "settling", !.envs = envs,
                                !.results = [i \in 1..Len(req[s].body[1].objects) |-> None]]]
  /\ UNCHANGED <<cache, now, prev>>

\* the promise of object i settles with the result of processObject
Settle(s, i) ==
  /\ req[s].pc = "settling"
  /\ i \in 1..Len(req[s].results)
  /\ req[s].results[i] = None
  /\ LET r == req[s]
     IN  req' = [req EXCEPT ![s] =
                   [r EXCEPT !.results[i] = Some(processObject(r.org, r.repo, r.body[1].operation,
                                                               r.body[1].objects[i], r.envs[i])),
                             !.order = Append(@, i)]]
  /\ UNCHANGED <<cache, now, prev>>

\* FinishBatch answering only when no object of the batch has an error
FinishBatch_NeedsNoError(s) ==
  /\ req[s].pc = "settling"
  /\ \A i \in 1..Len(req[s].results) : req[s].results[i] # None /\ req[s].results[i][1].error = None
  /\ LET r    == req[s]
         body == r.body[1]
     IN  req' = [req EXCEPT ![s] =
                   [r EXCEPT !.pc = "done", !.status = 200,
                             !.response = Some([transfer |-> "basic",
                                                objects |-> PromiseAll(r.results, r.order),
                                                hash_algo |-> IF body.hash_algo # None /\ body.hash_algo # Some("")
                                                              THEN body.hash_algo ELSE None]),
                             !.storeLookups = Len(body.objects),
                             !.signCalls = Cardinality({ i \in 1..Len(body.objects) :
                                             SignerInvoked(body.operation, body.objects[i], r.envs[i]) })]]
  /\ UNCHANGED <<cache, now, prev>>

\* every promise has settled: Promise.all resolves, processBatchRequest
\* builds the batch response and the handler answers 200
FinishBatch(s) ==
  /\ req[s].pc = "settling"
  /\ \A i \in 1..Len(req[s].results) : req[s].results[i] # None
  /\ LET r    == req[s]
         body == r.body[1]
     IN  req' = [req EXCEPT ![s] =
                   [r EXCEPT !.pc = "done", !.status = 200,
                             !.response = Some([transfer |-> "basic",
                                                objects |-> PromiseAll(r.results, r.order),
                                                hash_algo |-> IF body.hash_algo # None /\ body.hash_algo # Some("")
                                                              THEN body.hash_algo ELSE None]),
                             !.storeLookups = Len(body.objects),
                             !.signCalls = Cardinality({ i \in 1..Len(body.objects) :
                                             SignerInvoked(body.operation, body.objects[i], r.envs[i]) })]]
  /\ UNCHANGED <<cache, now, prev>>

\* The single-request specification: one request goes through the handler,
\* with the wider repository names and request bodies.
ReceiveOne(s) ==
  /\ req[s].pc = "idle"
  /\ \E header \in Headers, org \in Orgs, repoGit \in RepoGitsOne :
       req' = [req EXCEPT ![s] =
                 Begin([IdleReq EXCEPT !.header = header, !.org = org,
                                       !.repo = StripGit(repoGit),
                                       !.token = TokenOf[header],
                                       !.cacheAtStart = cache])]
  /\ UNCHANGED <<cache, now, prev>>

\* steps 5 to 7 on the bodies of the single-request specification
ReadBatch(s) ==
  /\ req[s].pc = "parseBody"
  /\ \E body \in Batches : req' = [req EXCEPT ![s] = CheckBody(req[s], body)]
  /\ UNCHANGED <<cache, now, prev>>

NextOne ==
  \/ \E s \in Slots : ReceiveOne(s)
  \/ \E s \in Slots : CacheGet(s)
  \/ \E s \in Slots : OracleCall(s)
  \/ \E s \in Slots : CachePut(s)
  \/ \E s \in Slots : ReadBatch(s)
  \/ \E s \in Slots : Process(s)

OneRequest == Init /\ [][NextOne]_vars

\* The specification of one request whose per-object promises settle in any
\* order, on the batches of at most MaxObjects objects.
SmallBatches == { b \in Batches : Len(b.objects) <= MaxObjects }

ReadSmallBatch(s) ==
  /\ req[s].pc = "parseBody"
  /\ \E body \in SmallBatches : req' = [req EXCEPT ![s] = CheckBody(req[s], body)]
  /\ UNCHANGED <<cache, now, prev>>

NextSettling ==
  \/ \E s \in Slots : ReceiveOne(s)
  \/ \E s \in Slots : CacheGet(s)
  \/ \E s \in Slots : OracleCall(s)
  \/ \E s \in Slots : CachePut(s)
  \/ \E s \in Slots : ReadSmallBatch(s)
  \/ \E s \in Slots : StartBatch(s)
  \/ \E s \in Slots : \E i \in 1..MaxObjects : Settle(s, i)
  \/ \E s \in Slots : FinishBatch(s)

Settling == Init /\ [][NextSettling]_vars

\* One request for one repository, with per-object promises, in which every
\* external call (the namespace, api.github.com, the body stream, the bucket
\* and the signer) eventually returns or throws, and the handler continues
\* when the call it awaits has settled.  The arrival of the request is not
\* forced.
Arrive(s) ==
  /\ req[s].pc = "idle"
  /\ \E header \in Headers, org \in {"acme", "evil"} :
       req' = [req EXCEPT ![s] =
                 Begin([IdleReq EXCEPT !.header = header, !.org = org,
                                       !.repo = StripGit("repo.git"),
                                       !.token = TokenOf[header],
                                       !.cacheAtStart = cache])]
  /\ UNCHANGED <<cache, now, prev>>

NextResponding ==
  \/ \E s \in Slots : Arrive(s)
  \/ \E s \in Slots : CacheGet(s)
  \/ \E s \in Slots : OracleCall(s)
  \/ \E s \in Slots : CachePut(s)
  \/ \E s \in Slots : ReadSmallBatch(s)
  \/ \E s \in Slots : StartBatch(s)
  \/ \E s \in Slots : \E i \in 1..MaxObjects : Settle(s, i)
  \/ \E s \in Slots : FinishBatch(s)

Responding ==
  /\ Init /\ [][NextResponding]_vars
  /\ \A s \in Slots :
       /\ WF_vars(CacheGet(s))
       /\ WF_vars(OracleCall(s))
       /\ WF_vars(CachePut(s))
       /\ WF_vars(ReadSmallBatch(s))
       /\ WF_vars(StartBatch(s))
       /\ WF_vars(\E i \in 1..MaxObjects : Settle(s, i))
       /\ WF_vars(FinishBatch(s))

\* The specification of concurrent requests: MaxRequests handler invocations
\* for the repository acme/repo, each with one of the two credentials, run
\* interleaved at their awaits, from an empty namespace.
MaxRequests == 2

Racers == 1..MaxRequests

\* answers of api.github.com to the concurrent requests: admin, read, not
\* found, and a server error
RaceResponses ==
  { Response(200, None, Some("4999"), None, JsonBody(Some(TRUE), Perms(TRUE, TRUE, TRUE))),
    Response(200, None, Some("4999"), None, JsonBody(Some(TRUE), Perms(FALSE, FALSE, TRUE))),
    Response(404, None, None, None, JsonBody(None, None)),
    Response(500, None, None, None, JsonBody(None, None)) }

\* the body of the concurrent requests: a valid upload batch
RaceBodies == { Batch("upload", <<Obj(OidA, IntSize(5))>>, Some(<<"tus", "basic">>), Some("sha256")) }

InitRace ==
  /\ cache = {}
  /\ now = 0
  /\ req = [s \in Racers |-> IdleReq]
  /\ prev = None

\* the Authorization headers of the concurrent requests
RaceHeaders == { Some("Bearer ghp_a1"), Some("Basic Z2l0Omdoc19CMg==") }

ReceiveRacer(s) ==
  /\ req[s].pc = "idle"
  /\ \E header \in RaceHeaders, repoGit \in RepoGits :
       req' = [req EXCEPT ![s] =
                 Begin([IdleReq EXCEPT !.header = header, !.org = "acme",
                                       !.repo = StripGit(repoGit),
                                       !.token = TokenOf[header],
                                       !.cacheAtStart = cache])]
  /\ UNCHANGED <<cache, now, prev>>

OracleAnswer(s) ==
  /\ req[s].pc = "oracle"
  /\ \E response \in RaceResponses :
       req' = [req EXCEPT ![s] =
                 AfterOracle([req[s] EXCEPT !.oracle = Some(response), !.oracleCalls = @ + 1],
                             Permission[response], now)]
  /\ UNCHANGED <<cache, now, prev>>

ReadUpload(s) ==
  /\ req[s].pc = "parseBody"
  /\ \E body \in RaceBodies : req' = [req EXCEPT ![s] = CheckBody(req[s], body)]
  /\ UNCHANGED <<cache, now, prev>>

NextRace ==
  \/ \E s \in Racers : ReceiveRacer(s)
  \/ \E s \in Racers : CacheGet(s)
  \/ \E s \in Racers : OracleAnswer(s)
  \/ \E s \in Racers : CachePut(s)
  \/ \E s \in Racers : ReadUpload(s)
  \/ \E s \in Racers : Process(s)

Race == InitRace /\ [][NextRace]_vars

\* The specification of sequential requests for different triples, without
\* the clock: a request arrives while the namespace holds at most MaxEntries
\* entries.
MaxEntries == 1

\* header, :org and :repoGit of the requests: two credentials, two allowed
\* organizations, two repositories
KeyedInputs == RaceHeaders \X {"acme", "beta"} \X {"repo.git", "other"}

ReceiveKeyed(s) ==
  /\ req[s].pc \in {"idle", "done"}
  /\ Cardinality(cache) <= MaxEntries
  /\ \E input \in KeyedInputs :
       req' = [req EXCEPT ![s] =
                 Begin([IdleReq EXCEPT !.header = input[1], !.org = input[2],
                                       !.repo = StripGit(input[3]),
                                       !.token = TokenOf[input[1]],
                                       !.cacheAtStart = cache])]
  /\ prev' = Summary(req[s], now)
  /\ UNCHANGED <<cache, now>>

NextKeyed ==
  \/ \E s \in Slots : ReceiveKeyed(s)
  \/ \E s \in Slots : CacheGet(s)
  \/ \E s \in Slots : OracleAnswer(s)
  \/ \E s \in Slots : CachePut(s)
  \/ \E s \in Slots : ReadUpload(s)
  \/ \E s \in Slots : Process(s)

Keyed == Init /\ [][NextKeyed]_vars

\* The specification of one request on the headers HeadersAuth and the
\* organizations OrgsAuth, with one upload body.
ReceiveAuth(s) ==
  /\ req[s].pc = "idle"
  /\ \E header \in HeadersAuth, org \in OrgsAuth :
       req' = [req EXCEPT ![s] =
                 Begin([IdleReq EXCEPT !.header = header, !.org = org,
                                       !.repo = StripGit("repo.git"),
                                       !.token = TokenOf[header],
                                       !.cacheAtStart = cache])]
  /\ UNCHANGED <<cache, now, prev>>

NextAuth ==
  \/ \E s \in Slots : ReceiveAuth(s)
  \/ \E s \in Slots : CacheGet(s)
  \/ \E s \in Slots : OracleCall(s)
  \/ \E s \in Slots : CachePut(s)
  \/ \E s \in Slots : ReadUpload(s)
  \/ \E s \in Slots : Process(s)

Authenticating == Init /\ [][NextAuth]_vars

Next ==
  \/ \E s \in Slots : Receive(s)
  \/ \E s \in Slots : CacheGet(s)
  \/ \E s \in Slots : OracleCall(s)
  \/ \E s \in Slots : CachePut(s)
  \/ \E s \in Slots : ParseBody(s)
  \/ \E s \in Slots : Process(s)
  \/ Tick

Spec == Init /\ [][Next]_vars

TypeOK ==
  /\ now \in 0..MaxTime
  /\ \A e \in cache : e.value \in Levels /\ e.exp > now
  /\ \A s \in Slots : req[s].pc \in {"idle", "cacheGet", "oracle", "cachePut", "parseBody", "process", "settling", "done"}

(***************************************************************************)
(* Properties of the batch endpoint                                        *)
(***************************************************************************)
Done(s) == req[s].pc = "done"

\* the transfer actions of the response of s
ActionsOf(s) ==
  IF req[s].response = None THEN {}
  ELSE { req[s].response[1].objects[i].actions[1] :
           i \in { j \in 1..Len(req[s].response[1].objects) :
                     req[s].response[1].objects[j].actions # None } }

\* the request read a batch naming one of the two operations
HasOperation(s) ==
  /\ req[s].body # None
  /\ req[s].body[1].parses
  /\ req[s].body[1].operation \in {"upload", "download"}

\* the resolved level of s does not permit the operation of s
Insufficient(s) ==
  /\ req[s].permission # None
  /\ \/ req[s].permission = Some("none")
     \/ /\ HasOperation(s)
        /\ req[s].body[1].operation = "upload"
        /\ req[s].permission[1] \notin {"write", "admin"}

\* the batch of s passes every check of the validator
PassesValidation(s) ==
  LET b == req[s].body[1]
  IN  /\ HasOperation(s)
      /\ b.isArray /\ Len(b.objects) >= 1 /\ Len(b.objects) <= 100
      /\ \A i \in 1..Len(b.objects) :
           /\ Len(b.objects[i].oid) = 64 /\ AllCharsIn(b.objects[i].oid, "0123456789abcdef")
           /\ b.objects[i].size.kind = "int" /\ b.objects[i].size.v >= 0
      /\ (b.transfers # None => \E i \in 1..Len(b.transfers[1]) : b.transfers[1][i] = "basic")
      /\ (b.hash_algo # None => b.hash_algo = Some("sha256"))

\* actions are issued only at a level that permits them
ActionsPermitted(s) ==
  \A a \in ActionsOf(s) :
    /\ a.kind = "upload" => req[s].permission[1] \in {"write", "admin"}
    /\ a.kind = "download" => req[s].permission[1] \in {"read", "write", "admin"}

BadOrgs ==
  { o \in Orgs : \/ o = "" \/ ~AllCharsIn(o, Lower \o Upper \o Digits \o "_-")
                 \/ Len(o) > 255
                 \/ o \notin {"acme", "beta"} }

\* C2: a request with a valid credential whose organization fails the
\* identifier pattern, exceeds 255 characters or is not in the allow-list is
\* answered 403, and the oracle (and the cache before it) is never invoked.
C2_OrgRejectedBeforeOracle ==
  \A s \in Slots :
    req[s].pc # "idle" /\ req[s].token # None /\ req[s].org \in BadOrgs =>
      /\ Done(s) /\ req[s].status = 403 /\ req[s].message = "Organization not allowed"
      /\ req[s].oracleCalls = 0 /\ req[s].cacheGets = 0

C2_Witness ==
  \E s \in Slots :
    /\ Done(s) /\ req[s].token = Some("ghs_B2") /\ req[s].org = "acme/.."
    /\ req[s].status = 403 /\ req[s].oracleCalls = 0

\* C3: when token extraction yields no credential the request ends with 401
\* and the LFS-Authenticate challenge, whatever the organization and the
\* body, and no later stage runs: no organization verdict, no cache access,
\* no oracle call, no bucket lookup, no signing.
C3_NoCredentialIsTerminal ==
  \A s \in Slots :
    req[s].pc # "idle" /\ req[s].token = None =>
      /\ Done(s) /\ req[s].status = 401
      /\ req[s].authenticate = Some("Basic realm=\"Git LFS\"")
      /\ ~req[s].orgChecked /\ req[s].body = None
      /\ req[s].cacheGets = 0 /\ req[s].cachePuts = 0 /\ req[s].oracleCalls = 0
      /\ req[s].storeLookups = 0 /\ req[s].signCalls = 0

C3_Witness ==
  \E s \in Slots :
    /\ Done(s) /\ req[s].header = Some("Basic !!!") /\ req[s].org = "evil"
    /\ req[s].status = 401 /\ ~req[s].orgChecked /\ req[s].oracleCalls = 0

\* api.github.com signalled rate limiting to s
RateLimited(s) ==
  /\ req[s].oracle # None
  /\ ~req[s].oracle[1].failed
  /\ \/ req[s].oracle[1].status = 429
     \/ req[s].oracle[1].status = 403 /\ req[s].oracle[1].remaining = Some("0")

\* C4: when the oracle signals rate limiting (429, or 403 with
\* X-RateLimit-Remaining "0") the request ends with 429: never 403, never a
\* resolved level, nothing cached, no object processed.
C4_RateLimitSurfaces ==
  \A s \in Slots :
    RateLimited(s) =>
      /\ Done(s) /\ req[s].status = 429 /\ req[s].message = "Rate limit exceeded"
      /\ req[s].permission = None /\ req[s].cachePuts = 0
      /\ req[s].body = None /\ req[s].response = None /\ req[s].storeLookups = 0

C4_Witness ==
  \E s \in Slots :
    /\ Done(s) /\ RateLimited(s) /\ req[s].oracle[1].status = 403
    /\ req[s].status = 429 /\ req[s].permission = None

\* C5: when the oracle answers with a server error (status >= 500) the
\* request ends with 502 "upstream unavailable", not 403, 429 or 500, and no
\* permission level is resolved.
C5_UpstreamErrorIs502 ==
  \A s \in Slots :
    req[s].oracle # None /\ ~req[s].oracle[1].failed /\ req[s].oracle[1].status >= 500 =>
      /\ Done(s) /\ req[s].status = 502 /\ req[s].message = "Upstream service error"
      /\ req[s].permission = None /\ req[s].cachePuts = 0

C5_Witness ==
  \E s \in Slots :
    /\ Done(s) /\ req[s].oracle # None /\ req[s].oracle[1].status = 503
    /\ req[s].status = 502 /\ req[s].permission = None

\* the oracle call of s did not succeed: fetch rejected, rate limiting, a
\* server error, or a body that is not JSON where one is read
OracleFailed(s) ==
  /\ req[s].oracle # None
  /\ LET o == req[s].oracle[1]
     IN  \/ o.failed
         \/ o.status = 429
         \/ o.status = 403 /\ o.remaining = Some("0")
         \/ o.status >= 500
         \/ o.status \notin {401, 403, 404} /\ ~o.body.json

\* C6: when the oracle call does not succeed the request performs no put:
\* the cache after the request is the cache the request found (less the
\* entries whose TTL lapsed meanwhile).
C6_NoPutOnFailure ==
  \A s \in Slots :
    OracleFailed(s) =>
      /\ Done(s) /\ req[s].status \in {429, 500, 502}
      /\ req[s].cachePuts = 0 /\ req[s].stored = None
      /\ cache = Live(req[s].cacheAtStart, now)

C6_Witness ==
  \E s \in Slots :
    /\ Done(s) /\ OracleFailed(s) /\ req[s].oracle[1].status = 429
    /\ cache # {} /\ cache = req[s].cacheAtStart /\ req[s].cachePuts = 0

\* C7: on a cache hit the resolver returns exactly the level the entry of
\* (credential, org, repo) holds, be it admin, write, read or none, and the
\* oracle is not invoked in that request.
C7_HitReturnsCachedLevel ==
  \A s \in Slots :
    req[s].cached # None =>
      /\ req[s].permission = req[s].cached
      /\ req[s].cached[1] \in {"admin", "write", "read", "none"}
      /\ \E e \in req[s].cacheAtStart :
           /\ e.key = "perm:" \o hashToken(req[s].token[1]) \o ":" \o req[s].org \o "/" \o req[s].repo
           /\ req[s].permission = Some(e.value)
      /\ req[s].oracleCalls = 0 /\ req[s].cachePuts = 0

C7_Witness ==
  \E s \in Slots :
    /\ Done(s) /\ req[s].cached = Some("none") /\ req[s].permission = Some("none")
    /\ req[s].oracleCalls = 0 /\ req[s].status = 403

\* s has looked the cache up for the triple of the previous request, which
\* stored a level whose TTL has not lapsed
FollowsSameTriple(s) ==
  /\ prev # None
  /\ req[s].pc \notin {"idle", "cacheGet"} /\ req[s].cacheGets = 1
  /\ req[s].token = Some(prev[1].token) /\ req[s].org = prev[1].org /\ req[s].repo = prev[1].repo

\* C8: two sequential requests with the same (credential, org, repo), the
\* first one missing the cache and its oracle call succeeding, the TTL not
\* lapsed: the oracle is invoked exactly once across both and both resolve
\* the same level.
C8_SecondRequestHits ==
  \A s \in Slots :
    FollowsSameTriple(s) =>
      /\ req[s].oracleCalls = 0
      /\ prev[1].oracleCalls + req[s].oracleCalls = 1
      /\ req[s].permission = Some(prev[1].level)

C8_Witness ==
  \E s \in Slots :
    /\ FollowsSameTriple(s) /\ Done(s) /\ req[s].status = 200
    /\ prev[1].oracleCalls = 1 /\ req[s].oracleCalls = 0 /\ prev[1].level = "write"

\* api.github.com answered not-found, unauthorized, or forbidden without a
\* rate-limit signal
NoAccessAnswer(o) ==
  /\ ~o.failed
  /\ \/ o.status \in {404, 401}
     \/ o.status = 403 /\ o.remaining # Some("0")

\* C9: on 404, 401, or 403 without a rate-limit signal the resolved level
\* is none and is stored in the cache; the next request for the same triple
\* within the TTL is rejected with 403 without invoking the oracle.
C9_NoAccessIsCached ==
  \A s \in Slots :
    /\ req[s].oracle # None /\ NoAccessAnswer(req[s].oracle[1]) =>
         /\ req[s].permission = Some("none")
         /\ \/ req[s].pc = "cachePut"
            \/ /\ Done(s) /\ req[s].status = 403 /\ req[s].cachePuts = 1
               /\ req[s].stored # None
               /\ req[s].stored[1] > now =>
                    \E e \in cache :
                      /\ e.key = "perm:" \o hashToken(req[s].token[1]) \o ":" \o req[s].org \o "/" \o req[s].repo
                      /\ e.value = "none"
    /\ FollowsSameTriple(s) /\ prev[1].oracle # None /\ NoAccessAnswer(prev[1].oracle[1]) =>
         /\ Done(s) /\ req[s].status = 403 /\ req[s].message = "Access denied"
         /\ req[s].oracleCalls = 0

C9_Witness ==
  \E s \in Slots :
    /\ FollowsSameTriple(s) /\ prev[1].oracle # None /\ prev[1].oracle[1].status = 404
    /\ Done(s) /\ req[s].status = 403 /\ req[s].oracleCalls = 0

\* the oracle call of s failed at the transport level (fetch rejected, a
\* timeout included)
TransportFailure(s) == req[s].oracle # None /\ req[s].oracle[1].failed

\* C10 as stated: a timeout or transport failure of the oracle call ends
\* like an upstream server error, with 502; never 429, never a resolved
\* level, nothing cached.
C10_Original ==
  \A s \in Slots :
    TransportFailure(s) =>
      /\ Done(s) /\ req[s].status = 502
      /\ req[s].permission = None /\ req[s].cachePuts = 0

\* C10 amended: a timeout or transport failure of the oracle call ends with
\* 500 "Internal server error" (the unclassified failure, not the 502 of an
\* upstream server error); never 429, never a resolved level, nothing cached.
C10_TransportFailureIs500 ==
  \A s \in Slots :
    TransportFailure(s) =>
      /\ Done(s) /\ req[s].status = 500 /\ req[s].message = "Internal server error"
      /\ req[s].retryAfter = None
      /\ req[s].permission = None /\ req[s].cachePuts = 0
      /\ cache = Live(req[s].cacheAtStart, now)

C10_Witness ==
  \E s \in Slots :
    /\ Done(s) /\ TransportFailure(s)
    /\ req[s].oracle[1].message = "The operation was aborted due to timeout"
    /\ req[s].status = 500 /\ req[s].permission = None

\* api.github.com answered 200 with a JSON body that is no repository record:
\* the private flag is missing
MalformedRecord(o) ==
  ~o.failed /\ o.status = 200 /\ o.body.json /\ o.body.private = None

\* C11: on a 2xx answer whose body is not a well-formed repository record
\* getRepositoryPermission throws "GitHub API error: invalid response" and
\* returns no permission level: the request resolves no level, stores
\* nothing and ends as an upstream error.
C11_InvalidResponseThrows ==
  \A s \in Slots :
    req[s].oracle # None /\ MalformedRecord(req[s].oracle[1]) =>
      /\ Permission[req[s].oracle[1]].threw
      /\ Permission[req[s].oracle[1]].error.message = "GitHub API error: invalid response"
      /\ req[s].permission = None /\ req[s].cachePuts = 0

\* api.github.com answered 200 with a JSON body without the permissions object
MissingSignal(o) ==
  ~o.failed /\ o.status = 200 /\ o.body.json /\ o.body.permissions = None

\* C12: when a successful answer omits the permissions object the resolved
\* level is read for a public repository (private = false) and none for a
\* private one (private = true), and never any other level.
C12_MissingSignalDefaults ==
  \A s \in Slots :
    req[s].oracle # None /\ MissingSignal(req[s].oracle[1]) =>
      /\ req[s].permission \in {Some("read"), Some("none")}
      /\ req[s].oracle[1].body.private = Some(FALSE) => req[s].permission = Some("read")
      /\ req[s].oracle[1].body.private = Some(TRUE) => req[s].permission = Some("none")

C12_Witness ==
  \E s \in Slots :
    /\ Done(s) /\ req[s].oracle # None /\ MissingSignal(req[s].oracle[1])
    /\ req[s].oracle[1].body.private = Some(TRUE)
    /\ req[s].permission = Some("none") /\ req[s].status = 403 /\ req[s].cachePuts = 1

\* the rate-limit error the oracle call of s threw
RateLimitError(s) == Permission[req[s].oracle[1]].error

\* C13: a 429 response carries Retry-After equal to the explicit retry-after
\* duration of the oracle's rate-limit error when one was supplied; otherwise
\* equal to the supplied reset timestamp minus the time of the response (a
\* time not after the current one); and no Retry-After when neither was
\* supplied.
C13_RetryAfterHint ==
  \A s \in Slots :
    Done(s) /\ req[s].status = 429 =>
      IF RateLimitError(s).retryAfter # None
      THEN req[s].retryAfter = Some(String(RateLimitError(s).retryAfter[1]))
      ELSE IF RateLimitError(s).resetAt # None
      THEN \E t \in 0..now :
             req[s].retryAfter = Some(String(Minus(RateLimitError(s).resetAt[1], Num(t))))
      ELSE req[s].retryAfter = None

\* s resolved a level other than none, read a batch naming upload, and the
\* level does not permit upload
UploadNotPermitted(s) ==
  /\ Done(s) /\ HasOperation(s)
  /\ req[s].body[1].operation = "upload"
  /\ req[s].permission = Some("read")

C15_InvalidRepoIs400 ==
  \A s \in Slots :
    /\ req[s].pc # "idle" /\ req[s].token # None
    /\ OrgAllowed[req[s].org] /\ ~validateRepoName(req[s].repo)
    => /\ Done(s) /\ req[s].status = 400
       /\ req[s].cacheGets = 0 /\ req[s].oracleCalls = 0

\* The checks of the validator, one by one, on a parsed batch b.
OperationOk(b) == b.operation \in {"upload", "download"}

ObjectsOk(b) == b.isArray /\ Len(b.objects) >= 1

CountOk(b) == Len(b.objects) <= 100

OidOk(o) == Len(o.oid) = 64 /\ AllCharsIn(o.oid, "0123456789abcdef")

SizeOk(o) == o.size.kind = "int" /\ o.size.v >= 0

TransfersOk(b) == b.transfers = None \/ \E i \in 1..Len(b.transfers[1]) : b.transfers[1][i] = "basic"

HashOk(b) == b.hash_algo = None \/ b.hash_algo = Some("sha256")

\* the reason of the lowest-numbered failing check, every OID being checked
\* before any size ("" when no check fails)
ReasonAllOidsFirst(b) ==
  IF ~OperationOk(b) THEN "Invalid operation"
  ELSE IF ~ObjectsOk(b) THEN "Objects array is required and must not be empty"
  ELSE IF ~CountOk(b) THEN "Batch request contains too many objects"
  ELSE IF \E i \in 1..Len(b.objects) : ~OidOk(b.objects[i]) THEN "Invalid OID format"
  ELSE IF \E i \in 1..Len(b.objects) : ~SizeOk(b.objects[i]) THEN "Invalid size"
  ELSE IF ~TransfersOk(b) THEN "Only basic transfer adapter is supported"
  ELSE IF ~HashOk(b) THEN "Only sha256 hash algorithm is supported"
  ELSE ""

\* the same with the OID and the size checked object by object: the first
\* object that fails either decides, its OID before its size
ReasonObjectByObject(b) ==
  IF ~OperationOk(b) THEN "Invalid operation"
  ELSE IF ~ObjectsOk(b) THEN "Objects array is required and must not be empty"
  ELSE IF ~CountOk(b) THEN "Batch request contains too many objects"
  ELSE IF \E i \in 1..Len(b.objects) :
            /\ ~OidOk(b.objects[i])
            /\ \A j \in 1..(i - 1) : OidOk(b.objects[j]) /\ SizeOk(b.objects[j])
  THEN "Invalid OID format"
  ELSE IF \E i \in 1..Len(b.objects) : ~SizeOk(b.objects[i]) THEN "Invalid size"
  ELSE IF ~TransfersOk(b) THEN "Only basic transfer adapter is supported"
  ELSE IF ~HashOk(b) THEN "Only sha256 hash algorithm is supported"
  ELSE ""

\* s has read a body that parses and validateBatchRequest has judged it
Validated(s) == req[s].body # None /\ req[s].body[1].parses

\* C16 as stated: validateBatchRequest reports the reason of the
\* lowest-numbered failing check in the order operation, objects, count,
\* every OID, every size, transfers, hash algorithm.
C16_Original ==
  \A s \in Slots :
    Validated(s) =>
      /\ Validation[req[s].body[1]].valid = (ReasonAllOidsFirst(req[s].body[1]) = "")
      /\ ~Validation[req[s].body[1]].valid =>
            /\ Validation[req[s].body[1]].error = ReasonAllOidsFirst(req[s].body[1])
            /\ req[s].message = ReasonAllOidsFirst(req[s].body[1])

\* C16 amended: the same order, except that OID and size are checked object
\* by object: the first object failing either check decides the reason (its
\* OID before its size), so an invalid size in an earlier object takes
\* precedence over an invalid OID in a later one; an over-long batch takes
\* precedence over any invalid OID or size in it.
C16_FirstFailingCheck ==
  \A s \in Slots :
    Validated(s) =>
      /\ Validation[req[s].body[1]].valid = (ReasonObjectByObject(req[s].body[1]) = "")
      /\ ~Validation[req[s].body[1]].valid =>
            /\ Validation[req[s].body[1]].error = ReasonObjectByObject(req[s].body[1])
            /\ req[s].message = ReasonObjectByObject(req[s].body[1])

C16_Witness ==
  \E s \in Slots :
    /\ Done(s) /\ Validated(s) /\ Len(req[s].body[1].objects) = 2
    /\ ~SizeOk(req[s].body[1].objects[1]) /\ OidOk(req[s].body[1].objects[1])
    /\ ~OidOk(req[s].body[1].objects[2])
    /\ req[s].message = "Invalid size"

\* C17: when the body of an authorized request does not parse or fails
\* validation the status is 413 when the failing check is the object count
\* (more than 100; exactly 100 is accepted), 409 when it is the hash
\* algorithm, and 422 for every other failure and for an unparseable body.
C17_ValidationStatus ==
  \A s \in Slots :
    Done(s) /\ req[s].body # None =>
      IF ~req[s].body[1].parses THEN req[s].status = 422
      ELSE /\ ReasonObjectByObject(req[s].body[1]) = "Batch request contains too many objects"
                => req[s].status = 413
           /\ ReasonObjectByObject(req[s].body[1]) = "Only sha256 hash algorithm is supported"
                => req[s].status = 409
           /\ ReasonObjectByObject(req[s].body[1])
                \notin {"", "Batch request contains too many objects",
                         "Only sha256 hash algorithm is supported"}
                => req[s].status = 422
           /\ ReasonObjectByObject(req[s].body[1]) = "" => req[s].status \in {200, 403}

\* s has processed its batch
Processed(s) == Done(s) /\ req[s].envs # <<>>

\* the bucket lookup or the signer threw for object i of the batch of s
ThrewFor(s, i) ==
  \/ req[s].envs[i].head = "throws"
  \/ /\ req[s].envs[i].sign = "throws"
     /\ IF req[s].body[1].operation = "download"
        THEN req[s].envs[i].head = "exists" /\ req[s].envs[i].size = req[s].body[1].objects[i].size
        ELSE req[s].envs[i].head = "absent"

\* the result of object i alone, under its own bucket and signer outcome
ResultAlone(s, i) ==
  IF req[s].body[1].operation = "download"
  THEN processDownloadObject(req[s].org, req[s].repo, req[s].body[1].objects[i], req[s].envs[i])
  ELSE processUploadObject(req[s].org, req[s].repo, req[s].body[1].objects[i], req[s].envs[i])

\* C18: when the bucket lookup or the signer throws for object i of a
\* validated batch, the result of i is the per-object error 500 without an
\* action, every other object has the result it has on its own, and the
\* request ends with the 200 batch response.
C18_FailureIsPerObject ==
  \A s \in Slots :
    Processed(s) =>
      /\ req[s].status = 200 /\ req[s].response # None
      /\ Len(req[s].response[1].objects) = Len(req[s].body[1].objects)
      /\ \A i \in 1..Len(req[s].body[1].objects) :
           IF ThrewFor(s, i)
           THEN /\ req[s].response[1].objects[i].error
                     = Some([code |-> 500, message |-> "Storage service error"])
                /\ req[s].response[1].objects[i].actions = None
                /\ req[s].response[1].objects[i].oid = req[s].body[1].objects[i].oid
           ELSE /\ req[s].response[1].objects[i] = ResultAlone(s, i)
                /\ \/ req[s].response[1].objects[i].error = None
                   \/ req[s].response[1].objects[i].error[1].code # 500

C18_Witness ==
  \E s \in Slots :
    /\ Processed(s) /\ Len(req[s].body[1].objects) = 2
    /\ ThrewFor(s, 1) /\ req[s].envs[1].sign = "throws" /\ req[s].envs[1].head # "throws"
    /\ ~ThrewFor(s, 2) /\ req[s].response[1].objects[2].actions # None
    /\ req[s].response[1].objects[1].error # None
    /\ req[s].status = 200

\* object i of the response of s carries the action kind
HasAction(s, i, kind) ==
  /\ req[s].response[1].objects[i].actions # None
  /\ req[s].response[1].objects[i].actions[1].kind = kind

\* object i of the response of s carries the error code
HasError(s, i, code) ==
  /\ req[s].response[1].objects[i].error # None
  /\ req[s].response[1].objects[i].error[1].code = code

\* the bucket reports object i of s present with the requested size
PresentSameSize(s, i) ==
  req[s].envs[i].head = "exists" /\ req[s].envs[i].size = req[s].body[1].objects[i].size

C20_Original ==
  \A s \in Slots :
    Processed(s) /\ req[s].body[1].operation = "upload" =>
      /\ \A i \in 1..Len(req[s].body[1].objects) :
           /\ req[s].envs[i].head = "absent"
                => HasAction(s, i, "upload") /\ req[s].response[1].objects[i].error = None
           /\ PresentSameSize(s, i)
                => /\ req[s].response[1].objects[i].actions = None
                   /\ req[s].response[1].objects[i].error = None
      /\ req[s].signCalls <= Cardinality({ i \in 1..Len(req[s].body[1].objects) : ~PresentSameSize(s, i) })

\* C20 amended: an absent object gets an upload action and no error when
\* the URL signer does not throw, and the error 500 without an action when
\* it throws; an object present with the requested size gets neither an
\* action nor an error, and the signer is not invoked for it.
C20_UploadPath ==
  \A s \in Slots :
    Processed(s) /\ req[s].body[1].operation = "upload" =>
      /\ \A i \in 1..Len(req[s].body[1].objects) :
           /\ req[s].envs[i].head = "absent" /\ req[s].envs[i].sign # "throws"
                => HasAction(s, i, "upload") /\ req[s].response[1].objects[i].error = None
           /\ req[s].envs[i].head = "absent" /\ req[s].envs[i].sign = "throws"
                => HasError(s, i, 500) /\ req[s].response[1].objects[i].actions = None
           /\ PresentSameSize(s, i)
                => /\ req[s].response[1].objects[i].actions = None
                   /\ req[s].response[1].objects[i].error = None
                   /\ req[s].response[1].objects[i].authenticated = Some(TRUE)
           /\ ~HasAction(s, i, "download")
      /\ req[s].signCalls = Cardinality({ i \in 1..Len(req[s].body[1].objects) :
                                            req[s].envs[i].head = "absent" })

C20_Witness ==
  \E s \in Slots :
    /\ Processed(s) /\ req[s].body[1].operation = "upload"
    /\ Len(req[s].body[1].objects) = 2
    /\ PresentSameSize(s, 1) /\ req[s].response[1].objects[1].actions = None
    /\ req[s].response[1].objects[1].error = None
    /\ req[s].envs[2].head = "absent" /\ HasAction(s, 2, "upload")
    /\ req[s].signCalls = 1

\* C21: on the upload path every object that the bucket holds with a size
\* other than the requested one gets a fresh upload action and no error
\* (the URL signer not throwing).
C21_SizeMismatchReuploads ==
  \A s \in Slots :
    Processed(s) /\ req[s].body[1].operation = "upload" =>
      \A i \in 1..Len(req[s].body[1].objects) :
        /\ req[s].envs[i].head = "exists" /\ ~PresentSameSize(s, i)
        /\ req[s].envs[i].sign # "throws"
        => HasAction(s, i, "upload") /\ req[s].response[1].objects[i].error = None

\* s has answered a batch whose per-object promises settled one by one
Settled(s) == Done(s) /\ req[s].order # <<>>

\* C22: whatever the order in which the per-object operations complete,
\* the response holds exactly one result per requested object and the i-th
\* result carries the oid and the size of the i-th requested object.
C22_ResultsInRequestOrder ==
  \A s \in Slots :
    Settled(s) =>
      /\ req[s].response # None
      /\ Len(req[s].response[1].objects) = Len(req[s].body[1].objects)
      /\ \A i \in 1..Len(req[s].body[1].objects) :
           /\ req[s].response[1].objects[i].oid = req[s].body[1].objects[i].oid
           /\ req[s].response[1].objects[i].size = req[s].body[1].objects[i].size

C22_Witness ==
  \E s \in Slots :
    /\ Settled(s) /\ req[s].order = <<2, 1>>
    /\ req[s].body[1].objects[1].size = IntSize(5) /\ req[s].body[1].objects[2].size = IntSize(7)
    /\ req[s].response[1].objects[1].size = IntSize(5)
    /\ req[s].response[1].objects[2].size = IntSize(7)

\* C23: no per-object result of processDownloadObject or processUploadObject
\* carries both an action and an error, on any path, the path of a thrown
\* exception included.
C23_ActionOrError ==
  \A s \in Slots :
    Processed(s) =>
      \A i \in 1..Len(req[s].response[1].objects) :
        ~(req[s].response[1].objects[i].actions # None /\ req[s].response[1].objects[i].error # None)

C23_Witness ==
  \E s \in Slots :
    /\ Processed(s) /\ req[s].body[1].operation = "download"
    /\ Len(req[s].body[1].objects) = 2
    /\ ThrewFor(s, 1) /\ HasError(s, 1, 500) /\ req[s].response[1].objects[1].actions = None
    /\ req[s].envs[2].head = "exists" /\ ~PresentSameSize(s, 2)
    /\ HasError(s, 2, 422) /\ req[s].response[1].objects[2].actions = None

\* the key of the triple of request s
KeyOf(s) == "perm:" \o hashToken(req[s].token[1]) \o ":" \o req[s].org \o "/" \o req[s].repo

\* u is a request for the triple of s
SameTriple(s, u) ==
  /\ req[u].pc # "idle"
  /\ req[u].token = req[s].token /\ req[u].org = req[s].org /\ req[u].repo = req[s].repo

\* what holds of the concurrent requests in every state: a request ends
\* with an error status only when its own oracle call failed; each request
\* invokes the oracle at most once, and some request for its triple has
\* invoked it once the request is past the resolver; a request that has a
\* level holds the cached level of its hit or the level its oracle call
\* returned; the level the cache holds for a triple is one that an oracle
\* call returned to a request for that triple that has put it
RaceInv ==
  /\ \A s \in Racers :
       /\ Done(s) /\ req[s].status \in {429, 500, 502} => OracleFailed(s)
       /\ Done(s) /\ req[s].status \notin {429, 500, 502} => req[s].permission # None
       /\ req[s].oracleCalls \in {0, 1}
       /\ req[s].pc \in {"cachePut", "parseBody", "process", "done"}
            => \E u \in Racers : SameTriple(s, u) /\ req[u].oracleCalls = 1
       /\ req[s].permission # None =>
            IF req[s].cached # None THEN req[s].permission = req[s].cached /\ req[s].oracleCalls = 0
            ELSE req[s].oracleCalls = 1
  /\ \A e \in cache :
       \E u \in Racers :
         /\ req[u].cachePuts = 1 /\ req[u].oracleCalls = 1 /\ req[u].cached = None
         /\ e.key = KeyOf(u) /\ req[u].permission = Some(e.value)

\* the put of a request stores its level over whatever its key holds and
\* leaves the entries of the other keys as they are
LastWriteWins ==
  \A s \in Racers :
    req[s].pc = "cachePut" /\ req'[s].pc # "cachePut" =>
      /\ KvGet(cache', KeyOf(s)) = req[s].permission
      /\ Cardinality({ e \in cache' : e.key = KeyOf(s) }) = 1
      /\ { e \in cache' : e.key # KeyOf(s) } = { e \in cache : e.key # KeyOf(s) }

EntriesKept ==
  \A e \in cache :
    IF e.exp > now'
    THEN \/ e \in cache'
         \/ \E s \in Slots : /\ req[s].pc = "cachePut" /\ req[s].cached = None
                              /\ e.key = KeyOf(s)
    ELSE e \notin cache'

\* entries live for the configured TTL; a request on the triple of a stored
\* level whose TTL has not lapsed is served that level without an oracle
\* call or a put; a request that misses invokes the oracle, and the level
\* it stores is the one the cache holds for its key until the TTL lapses
ServedUntilExpiry ==
  /\ \A e \in cache : e.exp > now /\ e.exp <= now + AUTH_CACHE_TTL
  /\ \A s \in Slots :
       /\ FollowsSameTriple(s) =>
            /\ req[s].cached = Some(prev[1].level) /\ req[s].permission = Some(prev[1].level)
            /\ req[s].oracleCalls = 0 /\ req[s].cachePuts = 0
       /\ req[s].cacheGets = 1 /\ req[s].cached = None =>
            \/ req[s].pc = "oracle" /\ req[s].oracleCalls = 0
            \/ req[s].oracleCalls = 1
       /\ req[s].stored # None =>
            /\ req[s].stored[1] <= now + AUTH_CACHE_TTL
            /\ req[s].stored[1] > now => KvGet(cache, KeyOf(s)) = req[s].permission

\* C25: no live cache entry is deleted or overwritten other than by a put
\* after a miss; a level stored with the configured TTL is served unchanged
\* to every request on its key until the TTL lapses, whatever the oracle
\* would answer; the first request after the expiry invokes the oracle
\* again and stores the fresh level.
C25_LiveEntriesServed == [][EntriesKept /\ ServedUntilExpiry']_vars

C25_Witness ==
  \E s \in Slots :
    /\ Done(s) /\ req[s].token # None
    /\ \E e \in req[s].cacheAtStart : e.key = KeyOf(s) /\ e.value = "read"
    /\ req[s].cached = None /\ req[s].oracleCalls = 1 /\ req[s].cachePuts = 1
    /\ req[s].permission = Some("admin")
    /\ KvGet(cache, KeyOf(s)) = Some("admin")

\* the (credential, org, repo) triples of the sequential requests
KeyedTriples ==
  { <<TokenOf[input[1]][1], input[2], StripGit(input[3])>> : input \in KeyedInputs }

\* s asks for the triple the previous request stored a level for
SameAsPrev(s) ==
  req[s].token = Some(prev[1].token) /\ req[s].org = prev[1].org /\ req[s].repo = prev[1].repo

\* C26: lookup and store derive the same key from a triple and distinct
\* triples have distinct keys: a level stored for a triple is what the
\* lookup of that triple returns, it is never returned to a lookup of a
\* triple that differs in the credential, the organization or the
\* repository, and a store for such a triple leaves it in place.
C26_KeyPerTriple ==
  /\ \A t1 \in KeyedTriples, t2 \in KeyedTriples :
       t1 # t2 => generateCacheKey(t1[1], t1[2], t1[3]) # generateCacheKey(t2[1], t2[2], t2[3])
  /\ \A s \in Slots :
       prev # None /\ req[s].cacheGets = 1 =>
         IF SameAsPrev(s) THEN req[s].cached = Some(prev[1].level)
         ELSE /\ \/ req[s].cached = None
                 \/ \E e \in req[s].cacheAtStart :
                      /\ e.key = generateCacheKey(req[s].token[1], req[s].org, req[s].repo)
                      /\ e.key # generateCacheKey(prev[1].token, prev[1].org, prev[1].repo)
                      /\ req[s].cached = Some(e.value)
              /\ getCachedPermission(cache, prev[1].token, prev[1].org, prev[1].repo)
                   = Some(prev[1].level)

C26_Witness ==
  \E s \in Slots :
    /\ prev # None /\ Done(s) /\ req[s].cacheGets = 1
    /\ prev[1].org = "acme" /\ req[s].org = "beta"
    /\ req[s].token = Some(prev[1].token) /\ req[s].repo = prev[1].repo
    /\ prev[1].level = "admin"
    /\ req[s].cached = None /\ req[s].permission = Some("read") /\ req[s].cachePuts = 1
    /\ getCachedPermission(cache, prev[1].token, "acme", prev[1].repo) = Some("admin")
    /\ getCachedPermission(cache, prev[1].token, "beta", prev[1].repo) = Some("read")

\* the credentials the requests of the model carry
Credentials == { TokenOf[h][1] : h \in { g \in Headers : TokenOf[g] # None } }

\* C27: in every reachable state no cache key and no cache value contains a
\* raw credential: a key is "perm:", the SHA-256 digest of the credential in
\* 64 hexadecimal digits, ":", and org "/" repo; a value is a permission
\* level.
C27_NoRawCredential ==
  \A e \in cache :
    /\ e.value \in {"admin", "write", "read", "none"}
    /\ \A c \in Credentials : ~Includes(e.key, c) /\ ~Includes(e.value, c)
    /\ \E c \in Credentials, o \in Orgs, g \in RepoGits :
         /\ e.key = "perm:" \o hashToken(c) \o ":" \o o \o "/" \o StripGit(g)
         /\ Len(hashToken(c)) = 64 /\ AllCharsIn(hashToken(c), "0123456789abcdef")

C27_Witness ==
  /\ Cardinality(cache) = 2
  /\ \E e \in cache : e.value = "none"
  /\ \E e \in cache : e.value = "write"
  /\ \A c \in Credentials : \E e \in cache : Includes(e.key, hashToken(c))

\* the class of the error a finished request ran into, from its inputs and
\* from what the oracle answered ("" when it ran into none)
ErrorClass(s) ==
  IF req[s].token = None THEN "credential"
  ELSE IF req[s].org \in BadOrgs THEN "organization"
  ELSE IF req[s].oracle # None /\ RateLimited(s) THEN "rate limit"
  ELSE IF req[s].oracle # None /\ ~req[s].oracle[1].failed /\ req[s].oracle[1].status >= 500
  THEN "upstream"
  ELSE IF req[s].oracle # None /\ OracleFailed(s) THEN "internal"
  ELSE IF req[s].permission = Some("none") THEN "access"
  ELSE IF req[s].body # None /\ ~req[s].body[1].parses THEN "json"
  ELSE IF req[s].body # None /\ ReasonObjectByObject(req[s].body[1]) # ""
  THEN ReasonObjectByObject(req[s].body[1])
  ELSE IF Insufficient(s) THEN "operation"
  ELSE ""

\* the message of each class other than the validation failures, whose
\* classes are the reasons of the validator themselves
ClassMessage(class) ==
  CASE class = "credential" -> "Authentication required"
    [] class = "organization" -> "Organization not allowed"
    [] class = "rate limit" -> "Rate limit exceeded"
    [] class = "upstream" -> "Upstream service error"
    [] class = "internal" -> "Internal server error"
    [] class = "access" -> "Access denied"
    [] class = "json" -> "Invalid JSON body"
    [] class = "operation" -> "Insufficient permissions for this operation"
    [] OTHER -> class

\* C28: the body of every request-level error response is the constant
\* message of its error class, whatever the credential and whatever the
\* text of the upstream or internal error: it contains neither the
\* credential nor the text of the error that was thrown.
C28_ErrorBodyIsConstant ==
  \A s \in Slots :
    Done(s) =>
      /\ req[s].status >= 400 <=> ErrorClass(s) # ""
      /\ req[s].status >= 400 =>
           /\ req[s].message = ClassMessage(ErrorClass(s))
           /\ req[s].token # None => ~Includes(req[s].message, req[s].token[1])
           /\ req[s].header # None => ~Includes(req[s].message, req[s].header[1])
           /\ ErrorClass(s) \in {"upstream", "internal"} =>
                /\ Permission[req[s].oracle[1]].threw
                /\ ~Includes(req[s].message, Permission[req[s].oracle[1]].error.message)

C28_Witness ==
  \E s \in Slots :
    /\ Done(s) /\ req[s].token = Some("ghs_B2")
    /\ TransportFailure(s) /\ req[s].oracle[1].message = "Network connection lost"
    /\ req[s].status = 500 /\ req[s].message = "Internal server error"

\* the order none < read < write < admin
Rank(level) ==
  CASE level = "none" -> 0 [] level = "read" -> 1 [] level = "write" -> 2 [] level = "admin" -> 3

\* the pairs of operation and level that are permitted
Permitted ==
  { <<"download", "read">>, <<"download", "write">>, <<"download", "admin">>,
    <<"upload", "write">>, <<"upload", "admin">> }

\* s has reached the operation check with a batch that passed validation
ReachedOperationCheck(s) ==
  /\ Done(s) /\ Validated(s) /\ Validation[req[s].body[1]].valid

\* C29: hasOperationPermission(level, op) is true exactly for download at
\* read, write or admin and for upload at write or admin, and every
\* operation permitted at a level is permitted at every higher level in the
\* order none < read < write < admin; the handler answers 403 at the
\* operation check exactly for the pairs that are not permitted.
C29_OperationPermission ==
  /\ \A op \in {"download", "upload"}, l \in {"none", "read", "write", "admin"} :
       /\ hasOperationPermission(l, op) <=> <<op, l>> \in Permitted
       /\ \A h \in {"none", "read", "write", "admin"} :
            Rank(l) <= Rank(h) /\ hasOperationPermission(l, op) => hasOperationPermission(h, op)
  /\ \A s \in Slots :
       ReachedOperationCheck(s) =>
         IF <<req[s].body[1].operation, req[s].permission[1]>> \in Permitted
         THEN req[s].status = 200
         ELSE req[s].status = 403 /\ req[s].message = "Insufficient permissions for this operation"

C29_Witness ==
  \E s \in Slots :
    /\ ReachedOperationCheck(s) /\ req[s].body[1].operation = "upload"
    /\ req[s].permission = Some("write") /\ req[s].cached = None /\ req[s].status = 200

\* api.github.com answered s with a repository record that has the three
\* permission booleans
HasSignal(s) ==
  /\ req[s].oracle # None /\ ~req[s].oracle[1].failed /\ req[s].oracle[1].status = 200
  /\ req[s].oracle[1].body.json /\ req[s].oracle[1].body.permissions # None

\* the level of the booleans admin, push and pull
LevelOf(admin, push, pull) ==
  IF admin THEN "admin" ELSE IF push THEN "write" ELSE IF pull THEN "read" ELSE "none"

\* C30: for each of the eight combinations of admin, push and pull the
\* mapped level is admin if admin is set, otherwise write if push is set,
\* otherwise read if pull is set, otherwise none; it is the level the
\* request resolves.
C30_PermissionMapping ==
  /\ \A a \in BOOLEAN, p \in BOOLEAN, r \in BOOLEAN :
       mapGitHubPermissions([admin |-> a, push |-> p, pull |-> r]) = LevelOf(a, p, r)
  /\ \A s \in Slots :
       HasSignal(s) =>
         req[s].permission
           = Some(LevelOf(req[s].oracle[1].body.permissions[1].admin,
                          req[s].oracle[1].body.permissions[1].push,
                          req[s].oracle[1].body.permissions[1].pull))

C30_Witness ==
  \E s \in Slots :
    /\ HasSignal(s) /\ req[s].pc = "cachePut"
    /\ req[s].oracle[1].body.permissions[1] = [admin |-> FALSE, push |-> TRUE, pull |-> TRUE]
    /\ req[s].permission = Some("write")


\* validateBatchRequest on the bodies that parse: an accepted batch has only
\* conforming objects, and a batch with an object that deviates in its OID
\* or its size is not accepted
ValidatorChecksEveryObject ==
  \A b \in { c \in Batches : c.parses } :
    /\ Validation[b].valid => \A i \in 1..Len(b.objects) : OidOk(b.objects[i]) /\ SizeOk(b.objects[i])
    /\ (\E i \in 1..Len(b.objects) : ~OidOk(b.objects[i]) \/ ~SizeOk(b.objects[i]))
         => ~Validation[b].valid

\* C31: validateBatchRequest accepts a batch only if every object in it has
\* an oid of exactly 64 lowercase hexadecimal characters and a size that is
\* a non-negative integer; one object deviating (oid case, length or
\* character set; size negative, fractional, NaN, infinite or no number)
\* makes the whole batch invalid and the request end with a validation
\* error.
C31_EveryObjectChecked ==
  /\ ValidatorChecksEveryObject
  /\ \A s \in Slots :
       Validated(s) =>
         /\ req[s].pc = "process" \/ req[s].response # None => Validation[req[s].body[1]].valid
         /\ ~Validation[req[s].body[1]].valid =>
               Done(s) /\ req[s].status \in {422, 413, 409} /\ req[s].response = None

C31_Witness ==
  \E s \in Slots :
    /\ Done(s) /\ Validated(s) /\ Len(req[s].body[1].objects) = 2
    /\ OidOk(req[s].body[1].objects[1]) /\ SizeOk(req[s].body[1].objects[1])
    /\ req[s].body[1].objects[2].size = OtherSize("Infinity")
    /\ req[s].status = 422 /\ req[s].message = "Invalid size"

\* org is a non-empty identifier of at most 255 characters that equals one
\* of the entries acme and beta of the allow-list
OrgAdmissible(org) ==
  /\ org # "" /\ Len(org) <= 255
  /\ AllCharsIn(org, Lower \o Upper \o Digits \o "-_")
  /\ org \in {"acme", "beta"}

\* C32: validateOrganization(env, org) is true if and only if org is
\* non-empty, at most 255 characters, made of alphanumerics, hyphen and
\* underscore, and equal, case-sensitively, to one of the trimmed non-empty
\* entries of the allow-list; a value with a path separator, a
\* path-traversal sequence or a comma is rejected even when it begins with
\* an allowed entry; the handler admits a request with a credential exactly
\* when its organization is such.
C32_OrganizationAdmission ==
  /\ \A o \in OrgsAuth \cup {""} : OrgAllowed[o] <=> OrgAdmissible(o)
  /\ \A o \in OrgsAuth :
       Includes(o, "/") \/ Includes(o, "..") \/ Includes(o, ",") => ~OrgAllowed[o]
  /\ \A s \in Slots :
       req[s].pc # "idle" /\ req[s].token # None =>
         IF OrgAdmissible(req[s].org)
         THEN req[s].message # "Organization not allowed"
         ELSE Done(s) /\ req[s].status = 403 /\ req[s].message = "Organization not allowed"

C32_Witness ==
  \E s \in Slots :
    /\ Done(s) /\ req[s].token # None /\ req[s].org = "acme-evil"
    /\ req[s].status = 403 /\ req[s].message = "Organization not allowed"
    /\ req[s].cacheGets = 0

\* the text that each basic header of HeadersAuth encodes; None when the
\* value is not base64
PlainText(h) ==
  CASE h = "Z2l0Omdoc19CMg==" -> Some("git:ghs_B2")
    [] h = "Z2hwX2Ex" -> Some("ghp_a1")
    [] h = "OmdocF9hMQ==" -> Some(":ghp_a1")
    [] h = "Z2l0OnBhc3M6Z2hwX2Ex" -> Some("git:pass:ghp_a1")
    [] h = "Z2l0Og==" -> Some("git:")
    [] OTHER -> None

\* the part of p after its first colon
AfterFirstColon(p) ==
  LET i == CHOOSE k \in 1..Len(p) : CharAt(p, k) = ":" /\ \A j \in 1..(k - 1) : CharAt(p, j) # ":"
  IN  SubSeq(p, i + 1, Len(p))

\* what the header carries: None, or Some(c)
Carried(header) ==
  IF header = None THEN None
  ELSE LET h == header[1]
       IN  IF Len(h) >= 7 /\ SubSeq(h, 1, 7) \in {"Bearer ", "bearer ", "BEARER "}
           THEN Some(SubSeq(h, 8, Len(h)))
           ELSE IF Len(h) >= 6 /\ SubSeq(h, 1, 6) \in {"Basic ", "basic "}
                   /\ PlainText(SubSeq(h, 7, Len(h))) # None
                   /\ Includes(PlainText(SubSeq(h, 7, Len(h)))[1], ":")
           THEN Some(AfterFirstColon(PlainText(SubSeq(h, 7, Len(h)))[1]))
           ELSE None

\* c is at most 1000 characters, begins with ghp_, github_pat_ or ghs_ and
\* continues with at least one character, all alphanumeric or underscore
WellFormed(c) ==
  /\ Len(c) <= 1000
  /\ \E p \in {"ghp_", "github_pat_", "ghs_"} :
       /\ Len(c) > Len(p) /\ SubSeq(c, 1, Len(p)) = p
       /\ \A i \in (Len(p) + 1)..Len(c) : Includes(Lower \o Upper \o Digits \o "_", CharAt(c, i))

ExpectedToken(header) ==
  IF Carried(header) # None /\ WellFormed(Carried(header)[1]) THEN Carried(header) ELSE None

\* C33: extractToken returns the credential c exactly when the header is the
\* bearer carrier followed by c, or the basic carrier whose decoded value has
\* a colon and c after its first colon, and c is at most 1000 characters,
\* begins with ghp_, github_pat_ or ghs_ and continues with at least one
\* alphanumeric or underscore character and nothing else; on any other
\* header, undecodable base64, a missing colon or an empty value included,
\* it returns no credential and the request is answered 401, not an error.
C33_CredentialExtraction ==
  /\ \A h \in HeadersAuth : TokenOf[h] = ExpectedToken(h)
  /\ \A s \in Slots :
       req[s].pc # "idle" =>
         /\ req[s].token = ExpectedToken(req[s].header)
         /\ req[s].token = None => Done(s) /\ req[s].status = 401
         /\ req[s].token # None => ~(Done(s) /\ req[s].status = 401)

C33_Witness ==
  \E s \in Slots :
    /\ Done(s) /\ req[s].header = Some("Basic Z2l0OnBhc3M6Z2hwX2Ex")
    /\ req[s].token = None /\ req[s].status = 401

\* C34: every transfer action of a batch response has the kind of the
\* operation of the request, download for a download request and upload for
\* an upload request, and an expires_in equal to the configured URL_EXPIRY.
C34_ActionKindAndExpiry ==
  \A s \in Slots :
    req[s].response # None =>
      \A i \in 1..Len(req[s].response[1].objects) :
        req[s].response[1].objects[i].actions # None =>
          /\ req[s].body[1].operation \in {"download", "upload"}
          /\ req[s].response[1].objects[i].actions[1].kind = req[s].body[1].operation
          /\ req[s].response[1].objects[i].actions[1].expires_in = URL_EXPIRY

C34_Witness ==
  \E s \in Slots :
    /\ Done(s) /\ req[s].status = 200 /\ req[s].response # None
    /\ req[s].body[1].operation = "upload"
    /\ Len(req[s].response[1].objects) = 2
    /\ req[s].response[1].objects[1].actions # None
    /\ req[s].response[1].objects[1].actions[1].kind = "upload"
    /\ req[s].response[1].objects[1].actions[1].expires_in = 900
    /\ req[s].response[1].objects[2].error # None

\* C35: every batch response names the transfer adapter basic, and has a
\* hash_algo member exactly when the request supplied one, with the value of
\* the request.
C35_ResponseFormat ==
  \A s \in Slots :
    req[s].response # None =>
      /\ req[s].response[1].transfer = "basic"
      /\ req[s].response[1].hash_algo = req[s].body[1].hash_algo
      /\ req[s].body[1].hash_algo \in {None, Some("sha256")}

C35_Witness ==
  \E s \in Slots :
    /\ Done(s) /\ req[s].status = 200 /\ req[s].response # None
    /\ req[s].body[1].hash_algo = Some("sha256")
    /\ req[s].response[1].hash_algo = Some("sha256")
    /\ req[s].response[1].transfer = "basic"

\* a response without the member, for a request without it
C35_WitnessAbsent ==
  \E s \in Slots :
    /\ Done(s) /\ req[s].status = 200 /\ req[s].response # None
    /\ req[s].body[1].hash_algo = None /\ req[s].response[1].hash_algo = None

\* the oracle call of request u succeeded and returned level (the handler
\* holds the answer until its put)
Answered(u, level) ==
  /\ req[u].oracle # None
  /\ ~Permission[req[u].oracle[1]].threw
  /\ Permission[req[u].oracle[1]].value = level

\* every stored and every resolved level is one of the four, and a request
\* about to put holds the level its own successful oracle call returned
SoundState ==
  /\ \A e \in cache : e.value \in Levels
  /\ \A s \in Racers :
       /\ req[s].permission # None => req[s].permission[1] \in Levels
       /\ req[s].pc = "cachePut" =>
             req[s].permission # None /\ Answered(s, req[s].permission[1])

\* an entry enters the cache only by the put of a request that holds a
\* successful oracle answer for the triple of the key, with that answer as
\* value; a request obtains its level only from its own successful oracle
\* call or from the entry the cache holds under the key of its triple, and
\* keeps it
SoundStep ==
  /\ \A e \in cache' \ cache :
       \E s \in Racers :
         /\ req[s].pc = "cachePut" /\ req[s].token # None
         /\ e.key = KeyOf(s) /\ Answered(s, e.value)
  /\ \A s \in Racers :
       /\ req[s].permission # None => req'[s].permission = req[s].permission
       /\ req[s].permission = None /\ req'[s].permission # None =>
            \/ /\ req[s].pc = "oracle" /\ req'[s].pc = "cachePut"
               /\ req'[s].oracle # None
               /\ ~Permission[req'[s].oracle[1]].threw
               /\ Permission[req'[s].oracle[1]].value = req'[s].permission[1]
            \/ /\ req[s].pc = "cacheGet"
               /\ req'[s].cached = req'[s].permission
               /\ \E e \in cache : e.key = KeyOf(s) /\ e.value = req'[s].permission[1]

\* C36: in every state reached by the concurrent requests, in any order and
\* interleaving from an empty cache, the value of each cache entry is one of
\* admin, write, read and none and is a level that a successful oracle call
\* returned for the triple of the key of the entry; and every level the
\* resolver returns to a request was an oracle answer for the triple of the
\* request: its own on a miss, the stored one on a hit.
C36_CacheSoundness == SoundState /\ [][SoundStep /\ SoundState']_vars

\* a hit: the level of s is the one the oracle returned to another request
\* for its triple, which has put it
C36_Witness ==
  \E s \in Racers, u \in Racers :
    /\ s # u /\ Done(s) /\ Done(u) /\ SameTriple(s, u)
    /\ req[s].cached = Some("read") /\ req[s].oracleCalls = 0 /\ req[s].permission = Some("read")
    /\ req[u].cached = None /\ req[u].oracleCalls = 1 /\ req[u].cachePuts = 1
    /\ req[u].permission = Some("read")
    /\ KvGet(cache, KeyOf(s)) = Some("read")

\* C37: a request whose resolved level is none is answered 403 Access
\* denied without its body being read: no body, valid or not, changes the
\* response, and the caller learns nothing of body validation.
C37_NoAccessBeforeBody ==
  \A s \in Slots :
    req[s].permission = Some("none") =>
      /\ req[s].pc \in {"cachePut", "done"}
      /\ req[s].body = None /\ req[s].response = None
      /\ req[s].storeLookups = 0 /\ req[s].signCalls = 0
      /\ Done(s) => req[s].status = 403 /\ req[s].message = "Access denied"

C37_Witness ==
  \E s \in Slots :
    /\ Done(s) /\ req[s].permission = Some("none") /\ req[s].oracleCalls = 1
    /\ req[s].status = 403 /\ req[s].message = "Access denied" /\ req[s].body = None

\* C38: whenever a 429 response carries Retry-After, its value is a
\* non-negative integer number of seconds (a non-empty string of decimal
\* digits), also when the reset timestamp of the oracle is in the past or is
\* zero and when the Retry-After of the oracle is not a number.
C38_RetryAfterIsDelay ==
  \A s \in Slots :
    Done(s) /\ req[s].status = 429 /\ req[s].retryAfter # None =>
      /\ req[s].retryAfter[1] # ""
      /\ AllCharsIn(req[s].retryAfter[1], Digits)

\* the request-level statuses
ResponseStatuses == {200, 400, 401, 403, 409, 413, 422, 429, 500, 502}

\* a request that has been answered stays as it was answered
AnsweredOnce == \A s \in Slots : Done(s) => req'[s] = req[s]

\* a request has a status exactly when it is answered, and then one of the
\* request-level statuses
StatusWhenAnswered ==
  \A s \in Slots :
    IF Done(s) THEN req[s].status \in ResponseStatuses
    ELSE req[s].status = 0 /\ req[s].response = None

====
